---- MODULE Spec2Model ----
(***************************************************************************)
(* Model of the freeme trust-boundary pipeline: the validation library     *)
(* (lib/validation.ts, kept in src/unnamed/part_000), and the ai-event     *)
(* POST handler in its two current versions (src/app/api/ai-event/route.ts *)
(* "ENHANCED SECURE VERSION" and src/app/api/events/route.ts "FIXED        *)
(* VERSION").                                                              *)
(*                                                                         *)
(* Conventions.  A JavaScript string is a sequence of one-character        *)
(* strings.  A JavaScript value is a record [ty, s, n, f]: ty is the       *)
(* typeof tag ("undefined", "null", "string", "number", "boolean",         *)
(* "array", "object"), s the characters of a string, n a number, f the     *)
(* own enumerable properties of an object as a sequence of <<key, value>>. *)
(* Instants of calendar events are seconds since the Unix epoch (the       *)
(* timestamps used carry no fractional second); the rate limiter's clock   *)
(* is in milliseconds since the start of the process.                      *)
(***************************************************************************)
EXTENDS Integers, Sequences, FiniteSets, TLC

VARIABLES
    now,        \* Date.now(), milliseconds
    rlStore,    \* RateLimiter.store: identifier -> [count, resetTime] or NoRecord
    rlSweepDue, \* instant at which the cleanup timer is next due
    rlLast,     \* the last call of RateLimiter.check: its arguments and its result
    rlWin,      \* history: per identifier, the window its last opening call started
    rlHist,     \* history: per identifier, the instants of its latest allowed calls
    rlTasks,    \* the calls of check and of cleanup in progress, statement by statement
    rlRunning,  \* the callback on the call stack of the event loop (0: none)
    sanIn,      \* argument of sanitizeInput
    sanOut,     \* its return value, once it has returned
    fnIn,       \* a library function called on its own and its arguments
    fnOut,      \* what that call returned, once it has returned
    version,    \* which version of the POST handler is deployed: "enhanced" or "fixed"
    nodeEnv,    \* process.env.NODE_ENV of the deployment
    events,     \* the rows of the events table
    nextId,     \* number of ids the store has generated so far
    reqs,       \* the requests being served, one per slot
    served      \* number of requests that have arrived

rlVars == <<now, rlStore, rlSweepDue, rlLast, rlWin>>

rlAuxVars == <<rlHist, rlTasks, rlRunning>>

sanVars == <<sanIn, sanOut>>

fnVars == <<fnIn, fnOut>>

appVars == <<version, nodeEnv, events, nextId, reqs, served>>

vars == <<now, rlStore, rlSweepDue, rlLast, rlWin, rlHist, rlTasks, rlRunning, sanIn, sanOut, fnIn, fnOut, version, nodeEnv, events, nextId,
         reqs, served>>

(***************************************************************************)
(* Generic helpers                                                         *)
(***************************************************************************)
Min(S) == CHOOSE x \in S : \A y \in S : x <= y

Max(S) == CHOOSE x \in S : \A y \in S : x >= y

\* n copies of the character c
Rep(c, n) == [i \in 1..n |-> c]

\* Math.ceil(a / b) for b > 0
CeilDiv(a, b) == -((-a) \div b)

(***************************************************************************)
(* JavaScript values                                                       *)
(***************************************************************************)
JUndef == [ty |-> "undefined", s |-> <<>>, n |-> 0, f |-> <<>>]

JNull == [ty |-> "null", s |-> <<>>, n |-> 0, f |-> <<>>]

JStr(str) == [ty |-> "string", s |-> str, n |-> 0, f |-> <<>>]

JNum(k) == [ty |-> "number", s |-> <<>>, n |-> k, f |-> <<>>]

\* typeof v === 'string'
IsString(v) == v.ty = "string"

(***************************************************************************)
(* Characters                                                              *)
(***************************************************************************)
Lowers == <<"a", "b", "c", "d", "e", "f", "g", "h", "i", "j", "k", "l", "m", "n", "o", "p", "q", "r", "s", "t", "u", "v", "w", "x", "y", "z">>

Uppers == <<"A", "B", "C", "D", "E", "F", "G", "H", "I", "J", "K", "L", "M", "N", "O", "P", "Q", "R", "S", "T", "U", "V", "W", "X", "Y", "Z">>

Digits == <<"0", "1", "2", "3", "4", "5", "6", "7", "8", "9">>

\* canonical form of a character under the regular-expression flag i
ToLower(c) ==
    IF \E i \in 1..26 : Uppers[i] = c
    THEN Lowers[CHOOSE i \in 1..26 : Uppers[i] = c]
    ELSE c

IsDigit(c) == \E i \in 1..10 : Digits[i] = c

\* the class \w
IsWord(c) == \/ \E i \in 1..26 : Lowers[i] = c \/ Uppers[i] = c
             \/ IsDigit(c)
             \/ c = "_"

\* the class \s, which is also what String.prototype.trim strips
IsSpace(c) == c \in {" ", "\t", "\n", "\r"}

\* String.prototype.trim
Trim(str) ==
    LET keep == {i \in 1..Len(str) : ~IsSpace(str[i])}
    IN  IF keep = {} THEN <<>> ELSE SubSeq(str, Min(keep), Max(keep))

\* String.prototype.slice(0, n)
Slice0(str, n) == IF Len(str) <= n THEN str ELSE SubSeq(str, 1, n)

\* the literal pat (given in lower case) matches str at index i, flag i
MatchLit(str, i, pat) ==
    /\ i + Len(pat) - 1 <= Len(str)
    /\ \A k \in 1..Len(pat) : ToLower(str[i + k - 1]) = pat[k]

\* some occurrence of pat in str, whatever the case: /pat/i.test(str)
TestLit(str, pat) == \E i \in 1..Len(str) : MatchLit(str, i, pat)

\* str.replace(/pat/gi, '') on the part of str from index i on: the matches
\* are taken leftmost first and do not overlap; the result is not rescanned
RECURSIVE RemoveLit(_, _, _)
RemoveLit(str, pat, i) ==
    LET starts == {j \in i..Len(str) : MatchLit(str, j, pat)}
    IN  IF starts = {} THEN SubSeq(str, i, Len(str))
        ELSE LET j == Min(starts)
             IN  SubSeq(str, i, j - 1) \o RemoveLit(str, pat, j + Len(pat))

\* last index of the run of \w characters that starts at k (k - 1 when empty)
WordRunEnd(str, k) ==
    Max({e \in (k - 1)..Len(str) : \A m \in k..e : IsWord(str[m])})

\* last index of the run of \s characters that starts at k (k - 1 when empty)
SpaceRunEnd(str, k) ==
    Max({e \in (k - 1)..Len(str) : \A m \in k..e : IsSpace(str[m])})

\* length of the match of /on\w+\s*=/i at index i, 0 when there is none.  \w+ and
\* \s* are greedy and neither class contains '=', so backtracking finds nothing more.
OnHandlerLen(str, i) ==
    IF ~(i + 1 <= Len(str) /\ ToLower(str[i]) = "o" /\ ToLower(str[i + 1]) = "n")
    THEN 0
    ELSE LET w  == WordRunEnd(str, i + 2)
             sp == SpaceRunEnd(str, w + 1)
         IN  IF w >= i + 2 /\ sp + 1 <= Len(str) /\ str[sp + 1] = "="
             THEN sp + 1 - i + 1
             ELSE 0

\* str.replace(/on\w+\s*=/gi, '') on the part of str from index i on
RECURSIVE RemoveOnHandlers(_, _)
RemoveOnHandlers(str, i) ==
    LET starts == {j \in i..Len(str) : OnHandlerLen(str, j) > 0}
    IN  IF starts = {} THEN SubSeq(str, i, Len(str))
        ELSE LET j == Min(starts)
             IN  SubSeq(str, i, j - 1) \o RemoveOnHandlers(str, j + OnHandlerLen(str, j))

\* str.replace(/[<>]/g, '')
RemoveAngles(str) == SelectSeq(str, LAMBDA c : c \notin {"<", ">"})

(***************************************************************************)
(* lib/validation.ts: sanitizeInput                                        *)
(***************************************************************************)
PatJavascript == <<"j", "a", "v", "a", "s", "c", "r", "i", "p", "t", ":">>

PatData == <<"d", "a", "t", "a", ":">>

PatVbscript == <<"v", "b", "s", "c", "r", "i", "p", "t", ":">>

SANITIZE_MAX == 10000

sanitizeInput(input) ==
    IF ~IsString(input) THEN <<>>
    ELSE LET s1 == RemoveAngles(input.s)
             s2 == RemoveLit(s1, PatJavascript, 1)
             s3 == RemoveOnHandlers(s2, 1)
             s4 == RemoveLit(s3, PatData, 1)
             s5 == RemoveLit(s4, PatVbscript, 1)
         IN  Slice0(Trim(s5), SANITIZE_MAX)

(***************************************************************************)
(* Inputs of the sanitizer: every concatenation of at most MaxFrags of the *)
(* fragments below, one string longer than the cap, and non-strings.       *)
(***************************************************************************)
MaxFrags == 3

SanFrags == {
    <<"j", "a", "v", "a">>,
    <<"s", "c", "r", "i", "p", "t", ":">>,
    <<"J", "a", "v", "a", "S", "c", "r", "i", "p", "t", ":">>,
    <<"d", "a", "t", "a", ":">>,
    <<"v", "b">>,
    <<"o", "n">>,
    <<"x", "=">>,
    <<"<">>,
    <<">">>,
    <<" ">>,
    <<"a">> }

RECURSIVE Concat(_)
Concat(ss) == IF ss = <<>> THEN <<>> ELSE Head(ss) \o Concat(Tail(ss))

SanStrings == {Concat(fs) : fs \in UNION {[1..k -> SanFrags] : k \in 0..MaxFrags}}

SanInputs ==
    {JStr(str) : str \in SanStrings}
    \cup {JStr(<<" ">> \o Rep("a", SANITIZE_MAX + 1))}
    \cup {JUndef, JNull, JNum(7)}

(***************************************************************************)
(* JSON: JSON.stringify and JSON.parse on the values of the model.  The    *)
(* texts of the model hold no string escape, no fraction and no exponent.  *)
(***************************************************************************)
JBool(b) == [ty |-> "boolean", s |-> <<>>, n |-> IF b THEN 1 ELSE 0, f |-> <<>>]

\* an object with the given sequence of <<key, value>> properties
JObj(props) == [ty |-> "object", s |-> <<>>, n |-> 0, f |-> props]

\* decimal digits of a natural number
RECURSIVE NumText(_)
NumText(k) ==
    IF k < 10 THEN <<Digits[k + 1]>>
    ELSE NumText(k \div 10) \o <<Digits[(k % 10) + 1]>>

\* an array: its own properties are the indices
JArr(elems) ==
    [ty |-> "array", s |-> <<>>, n |-> 0,
     f |-> [i \in 1..Len(elems) |-> <<NumText(i - 1), elems[i]>>]]

\* value of property key of an object (undefined when absent); on a string,
\* number or boolean any property of the model's texts is undefined
Get(v, key) ==
    LET hits == {i \in 1..Len(v.f) : v.f[i][1] = key}
    IN  IF v.ty \in {"object", "array"} /\ hits # {} THEN v.f[Max(hits)][2] ELSE JUndef

HasKey(v, key) == \E i \in 1..Len(v.f) : v.f[i][1] = key

QUOTE == "\""

LitNull == <<"n", "u", "l", "l">>

LitTrue == <<"t", "r", "u", "e">>

LitFalse == <<"f", "a", "l", "s", "e">>

RECURSIVE JsonText(_)
RECURSIVE JsonMembers(_, _)
\* JSON.stringify
JsonText(v) ==
    CASE v.ty = "string"  -> <<QUOTE>> \o v.s \o <<QUOTE>>
      [] v.ty = "number"  -> IF v.n < 0 THEN <<"-">> \o NumText(-v.n) ELSE NumText(v.n)
      [] v.ty = "boolean" -> IF v.n = 1 THEN LitTrue ELSE LitFalse
      [] v.ty = "object"  -> <<"{">> \o JsonMembers(v, 1) \o <<"}">>
      [] v.ty = "array"   -> <<"[">> \o JsonMembers(v, 1) \o <<"]">>
      [] OTHER            -> LitNull

JsonMembers(v, i) ==
    IF i > Len(v.f) THEN <<>>
    ELSE (IF i > 1 THEN <<",">> ELSE <<>>)
         \o (IF v.ty = "object" THEN <<QUOTE>> \o v.f[i][1] \o <<QUOTE, ":">> ELSE <<>>)
         \o JsonText(v.f[i][2])
         \o JsonMembers(v, i + 1)

\* text has the characters lit at index i
StartsWith(text, i, lit) ==
    /\ i + Len(lit) - 1 <= Len(text)
    /\ \A k \in 1..Len(lit) : text[i + k - 1] = lit[k]

\* first index from i on that holds no white space (Len + 1 when there is none)
SkipWs(text, i) ==
    LET rest == {j \in i..Len(text) : ~IsSpace(text[j])}
    IN  IF rest = {} THEN Len(text) + 1 ELSE Min(rest)

PFail(i) == [ok |-> FALSE, v |-> JUndef, next |-> i]

POk(v, i) == [ok |-> TRUE, v |-> v, next |-> i]

\* a string literal at index i (which holds the opening quote)
ParseString(text, i) ==
    LET closing == {j \in (i + 1)..Len(text) : text[j] = QUOTE}
    IN  IF closing = {} THEN PFail(i)
        ELSE LET j == Min(closing)
                 body == SubSeq(text, i + 1, j - 1)
             IN  IF \E k \in 1..Len(body) : body[k] \in {"\\", "\n", "\t", "\r"}
                 THEN PFail(i)
                 ELSE POk(JStr(body), j + 1)

RECURSIVE DigitsVal(_, _, _)
\* value of the digits text[i..j]
DigitsVal(text, i, j) ==
    IF j < i THEN 0
    ELSE 10 * DigitsVal(text, i, j - 1) + ((CHOOSE d \in 1..10 : Digits[d] = text[j]) - 1)

\* an integer literal at index i
ParseNumber(text, i) ==
    LET neg == text[i] = "-"
        d0  == IF neg THEN i + 1 ELSE i
        d1  == Max({e \in (d0 - 1)..Len(text) : \A m \in d0..e : IsDigit(text[m])})
    IN  IF d1 < d0 \/ (d1 > d0 /\ text[d0] = "0") THEN PFail(i)
        ELSE POk(JNum(IF neg THEN -DigitsVal(text, d0, d1) ELSE DigitsVal(text, d0, d1)),
                 d1 + 1)

RECURSIVE ParseValue(_, _)
RECURSIVE ParseMembers(_, _, _, _)
RECURSIVE ParseElements(_, _, _, _)
\* a JSON value starting at or after index i0
ParseValue(text, i0) ==
    LET i == SkipWs(text, i0)
    IN  IF i > Len(text) THEN PFail(i)
        ELSE CASE text[i] = "{"   -> ParseMembers(text, SkipWs(text, i + 1), <<>>, TRUE)
               [] text[i] = "["   -> ParseElements(text, SkipWs(text, i + 1), <<>>, TRUE)
               [] text[i] = QUOTE -> ParseString(text, i)
               [] text[i] = "-" \/ IsDigit(text[i]) -> ParseNumber(text, i)
               [] StartsWith(text, i, LitNull)  -> POk(JNull, i + 4)
               [] StartsWith(text, i, LitTrue)  -> POk(JBool(TRUE), i + 4)
               [] StartsWith(text, i, LitFalse) -> POk(JBool(FALSE), i + 5)
               [] OTHER -> PFail(i)

\* the members of an object from index i on; acc holds those read so far
ParseMembers(text, i, acc, first) ==
    IF i > Len(text) THEN PFail(i)
    ELSE IF first /\ text[i] = "}" THEN POk(JObj(acc), i + 1)
    ELSE IF text[i] # QUOTE THEN PFail(i)
    ELSE LET key == ParseString(text, i)
             c   == SkipWs(text, key.next)
         IN  IF ~key.ok \/ c > Len(text) \/ text[c] # ":" THEN PFail(i)
             ELSE LET val == ParseValue(text, c + 1)
                      e   == SkipWs(text, val.next)
                      all == Append(acc, <<key.v.s, val.v>>)
                  IN  IF ~val.ok \/ e > Len(text) THEN PFail(i)
                      ELSE IF text[e] = "}" THEN POk(JObj(all), e + 1)
                      ELSE IF text[e] = ","
                           THEN ParseMembers(text, SkipWs(text, e + 1), all, FALSE)
                           ELSE PFail(e)

\* the elements of an array from index i on
ParseElements(text, i, acc, first) ==
    IF i > Len(text) THEN PFail(i)
    ELSE IF first /\ text[i] = "]" THEN POk(JArr(acc), i + 1)
    ELSE LET val == ParseValue(text, i)
             e   == SkipWs(text, val.next)
             all == Append(acc, val.v)
         IN  IF ~val.ok \/ e > Len(text) THEN PFail(i)
             ELSE IF text[e] = "]" THEN POk(JArr(all), e + 1)
             ELSE IF text[e] = ","
                  THEN ParseElements(text, SkipWs(text, e + 1), all, FALSE)
                  ELSE PFail(e)

\* JSON.parse: ok is FALSE where it throws SyntaxError
JsonParse(text) ==
    LET r == ParseValue(text, 1)
    IN  IF r.ok /\ SkipWs(text, r.next) = Len(text) + 1
        THEN [ok |-> TRUE, v |-> r.v]
        ELSE [ok |-> FALSE, v |-> JUndef]


(***************************************************************************)
(* route.ts: extractJSON, in the two versions of the handler               *)
(***************************************************************************)
\* the grave accent U+0060, which a TLA+ string cannot hold
GRAVE == "GRAVE"

FENCE == <<GRAVE, GRAVE, GRAVE>>

LitJson == <<"j", "s", "o", "n">>

\* the group captured by the code-block pattern (fence, optional json, \s*,
\* group \{[\s\S]*?\}, \s*, fence) when the match starts
\* at index i: [found, from, to].  The lazy body stops at the first '}' that is
\* followed by optional white space and a fence.
CodeBlockAt(text, i) ==
    IF ~StartsWith(text, i, FENCE) THEN [found |-> FALSE, from |-> 0, to |-> 0]
    ELSE LET a == i + 3
             b == IF StartsWith(text, a, LitJson) THEN a + 4 ELSE a
             c == SkipWs(text, b)
             closing == {k \in (c + 1)..Len(text) :
                            text[k] = "}" /\ StartsWith(text, SkipWs(text, k + 1), FENCE)}
         IN  IF c > Len(text) \/ text[c] # "{" \/ closing = {}
             THEN [found |-> FALSE, from |-> 0, to |-> 0]
             ELSE [found |-> TRUE, from |-> c, to |-> Min(closing)]

\* the match of /\{[\s\S]*\}/: from the first '{' to the last '}'
BraceMatch(text) ==
    LET open  == {i \in 1..Len(text) : text[i] = "{"}
        close == {i \in 1..Len(text) : text[i] = "}"}
    IN  IF open # {} /\ close # {} /\ Max(close) > Min(open)
        THEN [found |-> TRUE, from |-> Min(open), to |-> Max(close)]
        ELSE [found |-> FALSE, from |-> 0, to |-> 0]

\* ai-event/route.ts extractJSON: ok is FALSE where it throws
extractJSON_enhanced(text) ==
    LET direct == JsonParse(text)
        blocks == {i \in 1..Len(text) : CodeBlockAt(text, i).found}
        brace  == BraceMatch(text)
    IN  IF direct.ok THEN direct
        ELSE IF blocks # {}
             THEN LET m == CodeBlockAt(text, Min(blocks))
                  IN  JsonParse(SubSeq(text, m.from, m.to))
        ELSE IF brace.found THEN JsonParse(SubSeq(text, brace.from, brace.to))
        ELSE [ok |-> FALSE, v |-> JUndef]

\* text.replace(/lit\s*/g, '') on the part of text from index i on
RECURSIVE RemoveWithSpace(_, _, _)
RemoveWithSpace(text, lit, i) ==
    LET starts == {j \in i..Len(text) : StartsWith(text, j, lit)}
    IN  IF starts = {} THEN SubSeq(text, i, Len(text))
        ELSE LET j == Min(starts)
             IN  SubSeq(text, i, j - 1)
                 \o RemoveWithSpace(text, lit, SkipWs(text, j + Len(lit)))

\* events/route.ts extractJSON (FIXED version): ok is FALSE where it throws
extractJSON_fixed(text) ==
    LET cleaned == RemoveWithSpace(RemoveWithSpace(Trim(text), FENCE \o LitJson, 1), FENCE, 1)
        brace   == BraceMatch(cleaned)
    IN  IF brace.found THEN JsonParse(SubSeq(cleaned, brace.from, brace.to))
        ELSE JsonParse(cleaned)

extractJSON(ver, text) ==
    IF ver = "fixed" THEN extractJSON_fixed(text) ELSE extractJSON_enhanced(text)

(***************************************************************************)
(* Timestamps: new Date(string) and zod's string().datetime() on the two   *)
(* shapes the model uses, YYYY-MM-DDTHH:MM:SSZ and YYYY-MM-DD, with every  *)
(* field in range; any other string of the model is not a date.            *)
(***************************************************************************)
Num2(str, i) == DigitsVal(str, i, i + 1)

IsLeap(y) == (y % 4 = 0 /\ y % 100 # 0) \/ y % 400 = 0

DaysInMonth(y, m) ==
    IF m = 2 THEN (IF IsLeap(y) THEN 29 ELSE 28)
    ELSE IF m \in {4, 6, 9, 11} THEN 30 ELSE 31

\* days from 1970-01-01 to the civil date y-m-d
DaysFromCivil(y, m, d) ==
    LET yy  == IF m <= 2 THEN y - 1 ELSE y
        era == yy \div 400
        yoe == yy - era * 400
        mp  == IF m > 2 THEN m - 3 ELSE m + 9
        doy == (153 * mp + 2) \div 5 + d - 1
        doe == yoe * 365 + yoe \div 4 - yoe \div 100 + doy
    IN  era * 146097 + doe - 719468

DateShape(str) ==
    /\ Len(str) >= 10
    /\ \A i \in {1, 2, 3, 4, 6, 7, 9, 10} : IsDigit(str[i])
    /\ str[5] = "-" /\ str[8] = "-"
    /\ Num2(str, 6) \in 1..12
    /\ Num2(str, 9) \in 1..DaysInMonth(DigitsVal(str, 1, 4), Num2(str, 6))

TimeShape(str) ==
    /\ Len(str) = 20
    /\ \A i \in {12, 13, 15, 16, 18, 19} : IsDigit(str[i])
    /\ str[11] = "T" /\ str[14] = ":" /\ str[17] = ":" /\ str[20] = "Z"
    /\ Num2(str, 12) <= 23 /\ Num2(str, 15) <= 59 /\ Num2(str, 18) <= 59

\* z.string().datetime(): UTC with the Z suffix only
ZodDatetime(str) == DateShape(str) /\ TimeShape(str)

NaN == [ok |-> FALSE, t |-> 0]

\* new Date(str).getTime(), in seconds; ok is FALSE for NaN
DateParse(str) ==
    IF DateShape(str) /\ (Len(str) = 10 \/ TimeShape(str))
    THEN [ok |-> TRUE,
          t  |-> DaysFromCivil(DigitsVal(str, 1, 4), Num2(str, 6), Num2(str, 9)) * 86400
                 + (IF Len(str) = 10 THEN 0
                    ELSE Num2(str, 12) * 3600 + Num2(str, 15) * 60 + Num2(str, 18))]
    ELSE NaN

(***************************************************************************)
(* lib/validation.ts: eventSchema, isValidUUID, validateRequestSize,       *)
(* validateAIPrompt                                                        *)
(***************************************************************************)
K_title == <<"t", "i", "t", "l", "e">>

K_description == <<"d", "e", "s", "c", "r", "i", "p", "t", "i", "o", "n">>

K_start_time == <<"s", "t", "a", "r", "t", "_", "t", "i", "m", "e">>

K_end_time == <<"e", "n", "d", "_", "t", "i", "m", "e">>

K_location == <<"l", "o", "c", "a", "t", "i", "o", "n">>

K_user_id == <<"u", "s", "e", "r", "_", "i", "d">>

K_id == <<"i", "d">>

TITLE_MAX == 200

DESCRIPTION_MAX == 2000

LOCATION_MAX == 200

MAX_SPAN_DAYS == 30

\* z.string().max(n).optional().nullable()
OptionalText(v, n) ==
    v.ty \in {"undefined", "null"} \/ (IsString(v) /\ Len(v.s) <= n)

\* the keys of the schema's shape, in its order
SchemaKeys == <<K_title, K_description, K_start_time, K_end_time, K_location>>

\* the schema without its second refinement: no limit on the span
eventSchema_NoSpanLimit(v) ==
    LET title == Get(v, K_title)
        st    == Get(v, K_start_time)
        en    == Get(v, K_end_time)
        shape == /\ v.ty = "object"
                 /\ IsString(title) /\ Len(title.s) >= 1 /\ Len(title.s) <= TITLE_MAX
                 /\ OptionalText(Get(v, K_description), DESCRIPTION_MAX)
                 /\ IsString(st) /\ ZodDatetime(st.s)
                 /\ IsString(en) /\ ZodDatetime(en.s)
                 /\ OptionalText(Get(v, K_location), LOCATION_MAX)
        after == DateParse(en.s).t > DateParse(st.s).t
        kept  == SelectSeq(SchemaKeys, LAMBDA k : HasKey(v, k))
    IN  IF shape /\ after
        THEN [success |-> TRUE,
              data |-> JObj([i \in 1..Len(kept) |-> <<kept[i], Get(v, kept[i])>>])]
        ELSE [success |-> FALSE, data |-> JUndef]

\* eventSchema.safeParse(v): success, and the parsed data, which keeps only the
\* keys of the shape that the input has (z.object strips the others)
eventSchema(v) ==
    LET title == Get(v, K_title)
        st    == Get(v, K_start_time)
        en    == Get(v, K_end_time)
        shape == /\ v.ty = "object"
                 /\ IsString(title) /\ Len(title.s) >= 1 /\ Len(title.s) <= TITLE_MAX
                 /\ OptionalText(Get(v, K_description), DESCRIPTION_MAX)
                 /\ IsString(st) /\ ZodDatetime(st.s)
                 /\ IsString(en) /\ ZodDatetime(en.s)
                 /\ OptionalText(Get(v, K_location), LOCATION_MAX)
        after == DateParse(en.s).t > DateParse(st.s).t
        short == DateParse(en.s).t - DateParse(st.s).t <= MAX_SPAN_DAYS * 86400
        kept  == SelectSeq(SchemaKeys, LAMBDA k : HasKey(v, k))
    IN  IF shape /\ after /\ short
        THEN [success |-> TRUE,
              data |-> JObj([i \in 1..Len(kept) |-> <<kept[i], Get(v, kept[i])>>])]
        ELSE [success |-> FALSE, data |-> JUndef]

IsHex(c) == IsDigit(c) \/ ToLower(c) \in {"a", "b", "c", "d", "e", "f"}

\* isValidUUID: version 4, variant 8, 9, a or b
isValidUUID(uuid) ==
    /\ IsString(uuid)
    /\ Len(uuid.s) = 36
    /\ \A i \in {9, 14, 19, 24} : uuid.s[i] = "-"
    /\ uuid.s[15] = "4"
    /\ ToLower(uuid.s[20]) \in {"8", "9", "a", "b"}
    /\ \A i \in (1..36) \ {9, 14, 15, 19, 20, 24} : IsHex(uuid.s[i])

MAX_REQUEST_BYTES == 10240

\* parseInt(str, 10): ok is FALSE for NaN
parseInt(str) ==
    LET i   == SkipWs(str, 1)
        neg == i <= Len(str) /\ str[i] = "-"
        d0  == IF i <= Len(str) /\ str[i] \in {"-", "+"} THEN i + 1 ELSE i
        d1  == Max({e \in (d0 - 1)..Len(str) : \A m \in d0..e : IsDigit(str[m])})
    IN  IF d1 < d0 THEN [ok |-> FALSE, n |-> 0]
        ELSE [ok |-> TRUE,
              n  |-> IF neg THEN -DigitsVal(str, d0, d1) ELSE DigitsVal(str, d0, d1)]

\* validateRequestSize(contentLength, maxSizeBytes).valid
validateRequestSize(contentLength, maxSizeBytes) ==
    IF ~IsString(contentLength) \/ contentLength.s = <<>> THEN FALSE
    ELSE LET size == parseInt(contentLength.s)
         IN  size.ok /\ size.n <= maxSizeBytes

PROMPT_MAX == 500

suspiciousPatterns ==
    << <<"s", "y", "s", "t", "e", "m", ":">>,
       <<"i", "g", "n", "o", "r", "e", " ", "p", "r", "e", "v", "i", "o", "u", "s">>,
       <<"d", "i", "s", "r", "e", "g", "a", "r", "d">>,
       <<"<", "s", "c", "r", "i", "p", "t">>,
       <<"j", "a", "v", "a", "s", "c", "r", "i", "p", "t", ":">> >>

\* validateAIPrompt(prompt): valid, the sanitized prompt, and the error
\* the patterns tested before the length
validateAIPrompt_PatternsFirst(prompt) ==
    LET trimmed == Trim(prompt.s)
        bad(e)  == [valid |-> FALSE, sanitized |-> <<>>, error |-> e]
    IN  IF ~IsString(prompt) THEN bad("Invalid prompt type")
        ELSE IF Len(trimmed) = 0 THEN bad("Prompt cannot be empty")
        ELSE IF \E i \in 1..Len(suspiciousPatterns) : TestLit(trimmed, suspiciousPatterns[i])
             THEN bad("Invalid prompt content")
        ELSE IF Len(trimmed) > PROMPT_MAX THEN bad("Prompt too long (max 500 characters)")
        ELSE [valid |-> TRUE, sanitized |-> sanitizeInput(JStr(trimmed)), error |-> ""]

validateAIPrompt(prompt) ==
    LET trimmed == Trim(prompt.s)
        bad(e)  == [valid |-> FALSE, sanitized |-> <<>>, error |-> e]
    IN  IF ~IsString(prompt) THEN bad("Invalid prompt type")
        ELSE IF Len(trimmed) = 0 THEN bad("Prompt cannot be empty")
        ELSE IF Len(trimmed) > PROMPT_MAX THEN bad("Prompt too long (max 500 characters)")
        ELSE IF \E i \in 1..Len(suspiciousPatterns) : TestLit(trimmed, suspiciousPatterns[i])
             THEN bad("Invalid prompt content")
        ELSE [valid |-> TRUE, sanitized |-> sanitizeInput(JStr(trimmed)), error |-> ""]


(***************************************************************************)
(* lib/validation.ts: RateLimiter                                          *)
(***************************************************************************)
RATE_LIMITS ==
    [ AI_REQUEST |-> [limit |-> 10,  windowMs |-> 60000],
      EVENT_API  |-> [limit |-> 100, windowMs |-> 60000],
      AUTH       |-> [limit |-> 5,   windowMs |-> 300000],
      IP_BASED   |-> [limit |-> 200, windowMs |-> 60000] ]

CLEANUP_INTERVAL_MS == 5 * 60 * 1000

\* a set that keeps no other key
MapSet_Only(m, k, v) == [x \in {k} |-> v]

\* Map.prototype.set
MapSet(m, k, v) == [x \in DOMAIN m \cup {k} |-> IF x = k THEN v ELSE m[x]]

\* Map.prototype.delete of every key in ks
MapDeleteAll(m, ks) == [x \in DOMAIN m \ ks |-> m[x]]

\* RateLimitResult; retryAfter is optional: hasRetryAfter says whether it is set
RLResult(allowed, remaining, resetTime, hasRetryAfter, retryAfter) ==
    [allowed |-> allowed, remaining |-> remaining, resetTime |-> resetTime,
     hasRetryAfter |-> hasRetryAfter, retryAfter |-> retryAfter]

\* check without the record.count++ of its last branch
Check_NoIncrement(store, t, identifier, config) ==
    IF identifier \notin DOMAIN store \/ store[identifier].resetTime < t
    THEN [store  |-> MapSet(store, identifier,
                            [count |-> 1, resetTime |-> t + config.windowMs]),
          result |-> RLResult(TRUE, config.limit - 1, t + config.windowMs, FALSE, 0)]
    ELSE LET record == store[identifier]
         IN  IF record.count >= config.limit
             THEN [store  |-> store,
                   result |-> RLResult(FALSE, 0, record.resetTime, TRUE,
                                       CeilDiv(record.resetTime - t, 1000))]
             ELSE [store  |-> store,
                   result |-> RLResult(TRUE, config.limit - (record.count + 1),
                                       record.resetTime, FALSE, 0)]

\* RateLimiter.check at instant t: the store it leaves and the result it returns
Check(store, t, identifier, config) ==
    IF identifier \notin DOMAIN store \/ store[identifier].resetTime < t
    THEN [store  |-> MapSet(store, identifier,
                            [count |-> 1, resetTime |-> t + config.windowMs]),
          result |-> RLResult(TRUE, config.limit - 1, t + config.windowMs, FALSE, 0)]
    ELSE LET record == store[identifier]
         IN  IF record.count >= config.limit
             THEN [store  |-> store,
                   result |-> RLResult(FALSE, 0, record.resetTime, TRUE,
                                       CeilDiv(record.resetTime - t, 1000))]
             ELSE [store  |-> MapSet(store, identifier,
                                     [count |-> record.count + 1,
                                      resetTime |-> record.resetTime]),
                   result |-> RLResult(TRUE, config.limit - (record.count + 1),
                                       record.resetTime, FALSE, 0)]

\* a cleanup that also deletes the records due to expire before its next run
Cleanup_All(store, t) ==
    MapDeleteAll(store, {k \in DOMAIN store : store[k].resetTime < t + CLEANUP_INTERVAL_MS})

\* RateLimiter.cleanup at instant t
Cleanup(store, t) ==
    MapDeleteAll(store, {k \in DOMAIN store : store[k].resetTime < t})

\* checkRateLimit(identifier, type)
checkRateLimit(store, t, identifier, type) ==
    Check(store, t, identifier, RATE_LIMITS[type])

(***************************************************************************)
(* The events table behind the Supabase client.  The store generates the   *)
(* id of a new row (a version 4 UUID) and fills absent columns with null.  *)
(***************************************************************************)
Users == {<<"A">>, <<"B">>}

\* no authenticated user: supabase.auth.getUser() yields user = null
NoUser == <<>>

\* the rate-limit identifier of a user, 'user:' followed by user.id
UserKey(u) == <<"u", "s", "e", "r", ":">> \o u

Columns == {K_id, K_user_id, K_title, K_description, K_start_time, K_end_time, K_location}

\* a UUID whose digits are all c, of the given version and variant characters
MkUUID(c, ver, var) ==
    Rep(c, 8) \o <<"-">> \o Rep(c, 4) \o <<"-", ver>> \o Rep(c, 3)
    \o <<"-", var>> \o Rep(c, 3) \o <<"-">> \o Rep(c, 12)

\* the k-th id the store generates
NewId(k) == MkUUID(Digits[k + 1], "4", "8")

\* obj[key] = val on the properties of an object
Put(props, key, val) ==
    IF \E i \in 1..Len(props) : props[i][1] = key
    THEN [i \in 1..Len(props) |-> IF props[i][1] = key THEN <<key, val>> ELSE props[i]]
    ELSE Append(props, <<key, val>>)

\* { ...obj } alone
Spread_Dropped(obj, key, val) == obj

\* { ...obj, key: val }
Spread(obj, key, val) == JObj(Put(obj.f, key, val))

\* Object.keys(obj).length = 0
NoKeys(obj) == Len(obj.f) = 0

\* every key of the object is a column of the table
KnownColumns(obj) == \A i \in 1..Len(obj.f) : obj.f[i][1] \in Columns

\* the row that .insert(obj) stores when the store generates newId
InsertRow(obj, newId) ==
    [k \in Columns |->
        IF HasKey(obj, k) THEN Get(obj, k)
        ELSE IF k = K_id THEN JStr(newId) ELSE JNull]

\* the rows selected by .eq('id', id) alone
Scoped_IdOnly(rows, id, user) == {row \in rows : row[K_id] = id}

\* the rows selected by .eq('id', id).eq('user_id', user)
Scoped(rows, id, user) ==
    {row \in rows : row[K_id] = id /\ row[K_user_id] = JStr(user)}

\* a row after .update(obj)
UpdateRow(row, obj) ==
    [k \in Columns |-> IF HasKey(obj, k) THEN Get(obj, k) ELSE row[k]]

\* the table after .update(obj).eq('id', id).eq('user_id', user)
UpdateScoped(rows, id, user, obj) ==
    {IF row \in Scoped(rows, id, user) THEN UpdateRow(row, obj) ELSE row : row \in rows}

\* the table after .delete().eq('id', id).eq('user_id', user)
DeleteScoped(rows, id, user) == rows \ Scoped(rows, id, user)

(***************************************************************************)
(* route.ts: responses                                                     *)
(***************************************************************************)
ERROR_RESPONSES ==
    [ UNAUTHORIZED      |-> [error |-> "Unauthorized",              code |-> "AUTH_REQUIRED"],
      RATE_LIMIT        |-> [error |-> "Rate limit exceeded",       code |-> "RATE_LIMIT_EXCEEDED"],
      INVALID_INPUT     |-> [error |-> "Invalid input",             code |-> "INVALID_INPUT"],
      PAYLOAD_TOO_LARGE |-> [error |-> "Request too large",         code |-> "PAYLOAD_TOO_LARGE"],
      AI_ERROR          |-> [error |-> "AI processing failed",      code |-> "AI_ERROR"],
      DATABASE_ERROR    |-> [error |-> "Database operation failed", code |-> "DB_ERROR"],
      NOT_FOUND         |-> [error |-> "Resource not found",        code |-> "NOT_FOUND"],
      SERVER_ERROR      |-> [error |-> "Internal server error",     code |-> "SERVER_ERROR"] ]

\* NextResponse.json({...ERROR_RESPONSES[name], details}, {status}): details is
\* "" where the body has none (undefined is left out of the JSON), requestId
\* tells whether the body carries the request's id.  The fixed wording that the
\* fixed version adds under message to some error bodies is left out.
ErrorResponse(name, status, details) ==
    [status |-> status, success |-> FALSE, code |-> ERROR_RESPONSES[name].code,
     details |-> details, action |-> "", requestId |-> FALSE,
     results |-> JUndef, message |-> JUndef]

\* NextResponse.json({success: true, action, ..., requestId, processingTime})
SuccessResponse(action) ==
    [status |-> 200, success |-> TRUE, code |-> "", details |-> "", action |-> action,
     requestId |-> TRUE, results |-> JUndef, message |-> JUndef]

NoResponse ==
    [status |-> 0, success |-> FALSE, code |-> "", details |-> "", action |-> "",
     requestId |-> FALSE, results |-> JUndef, message |-> JUndef]

\* the details of the body built in a catch block from the message of what was
\* caught: the enhanced version gives it in development only, the fixed
\* version always
Details(ver, env, message) ==
    IF ver = "fixed" \/ env = "development" THEN message ELSE ""

\* the outer catch of POST
Unhandled(ver, env, message) ==
    [ErrorResponse("SERVER_ERROR", 500, Details(ver, env, message)) EXCEPT !.requestId = TRUE]

\* the outcome of section 7 of the design that a response stands for
Outcome(resp) ==
    CASE resp.success                      -> "Success"
      [] resp.code = "AUTH_REQUIRED"       -> "Unauthorized"
      [] resp.code = "PAYLOAD_TOO_LARGE"   -> "PayloadTooLarge"
      [] resp.code = "INVALID_INPUT"       -> "InvalidInput"
      [] resp.code = "RATE_LIMIT_EXCEEDED" -> "RateLimited"
      [] resp.code = "AI_ERROR" /\ resp.status = 503 -> "ModelFailure"
      [] resp.code = "AI_ERROR"            -> "ParseFailure"
      [] resp.code = "NOT_FOUND"           -> "NotFound"
      [] resp.code = "DB_ERROR"            -> "StorageFailure"
      [] resp.code = "SERVER_ERROR"        -> "ServerFailure"
      [] OTHER                             -> "None"

(***************************************************************************)
(* route.ts: the synchronous parts of POST between two awaits, as          *)
(* functions from the request (and what the await returned) to the request *)
(***************************************************************************)
K_prompt == <<"p", "r", "o", "m", "p", "t">>

K_action == <<"a", "c", "t", "i", "o", "n">>

K_event == <<"e", "v", "e", "n", "t">>

K_event_id == <<"e", "v", "e", "n", "t", "_", "i", "d">>

K_updates == <<"u", "p", "d", "a", "t", "e", "s">>

K_results == <<"r", "e", "s", "u", "l", "t", "s">>

K_message == <<"m", "e", "s", "s", "a", "g", "e">>

validActions == {<<"c", "r", "e", "a", "t", "e">>, <<"u", "p", "d", "a", "t", "e">>, <<"d", "e", "l", "e", "t", "e">>, <<"q", "u", "e", "r", "y">>}

allowedFields == {K_title, K_description, K_start_time, K_end_time, K_location}

\* a value in a condition: ToBoolean
Truthy(v) ==
    CASE v.ty = "string"  -> v.s # <<>>
      [] v.ty = "number"  -> v.n # 0
      [] v.ty = "boolean" -> v.n = 1
      [] v.ty \in {"object", "array"} -> TRUE
      [] OTHER -> FALSE

RECURSIVE JsString(_)
RECURSIVE JoinElements(_, _)
\* String(v)
JsString(v) ==
    CASE v.ty = "string"    -> v.s
      [] v.ty = "number"    -> IF v.n < 0 THEN <<"-">> \o NumText(-v.n) ELSE NumText(v.n)
      [] v.ty = "boolean"   -> IF v.n = 1 THEN LitTrue ELSE LitFalse
      [] v.ty = "null"      -> LitNull
      [] v.ty = "undefined" -> <<"u", "n", "d", "e", "f", "i", "n", "e", "d">>
      [] v.ty = "array"     -> JoinElements(v, 1)
      [] OTHER              -> <<"[", "o", "b", "j", "e", "c", "t", " ", "O", "b", "j", "e", "c", "t", "]">>

\* Array.prototype.join from element i on; null and undefined give ''
JoinElements(v, i) ==
    IF i > Len(v.f) THEN <<>>
    ELSE (IF i > 1 THEN <<",">> ELSE <<>>)
         \o (IF v.f[i][2].ty \in {"null", "undefined"} THEN <<>> ELSE JsString(v.f[i][2]))
         \o JoinElements(v, i + 1)

\* Object.entries(v) for a value that is neither null nor undefined
Entries(v) ==
    CASE v.ty \in {"object", "array"} -> v.f
      [] v.ty = "string" -> [i \in 1..Len(v.s) |-> <<NumText(i - 1), JStr(<<v.s[i]>>)>>]
      [] OTHER -> <<>>

RECURSIVE BuildUpdates(_, _, _, _)
RECURSIVE BuildUpdates_NoAllowList(_, _, _, _)
\* the loop without the allow-list: a key outside it is written as it comes
BuildUpdates_NoAllowList(ver, entries, i, acc) ==
    IF i > Len(entries) THEN [abort |-> FALSE, set |-> JObj(acc)]
    ELSE LET key   == entries[i][1]
             value == entries[i][2]
         IN  IF key \notin allowedFields
             THEN BuildUpdates_NoAllowList(ver, entries, i + 1, Put(acc, key, value))
             ELSE IF key = K_title /\ IsString(value)
                  THEN BuildUpdates_NoAllowList(ver, entries, i + 1,
                           Put(acc, key, JStr(Slice0(Trim(value.s), TITLE_MAX))))
             ELSE IF key = K_description
                  THEN BuildUpdates_NoAllowList(ver, entries, i + 1,
                           Put(acc, key, IF Truthy(value)
                                         THEN JStr(Slice0(Trim(JsString(value)), DESCRIPTION_MAX))
                                         ELSE JNull))
             ELSE IF key = K_location
                  THEN BuildUpdates_NoAllowList(ver, entries, i + 1,
                           Put(acc, key, IF Truthy(value)
                                         THEN JStr(Slice0(Trim(JsString(value)), LOCATION_MAX))
                                         ELSE JNull))
             ELSE IF key \in {K_start_time, K_end_time} /\ IsString(value)
                  THEN IF DateParse(value.s).ok
                       THEN BuildUpdates_NoAllowList(ver, entries, i + 1, Put(acc, key, value))
                       ELSE IF ver = "fixed"
                            THEN BuildUpdates_NoAllowList(ver, entries, i + 1, acc)
                            ELSE [abort |-> TRUE, set |-> JObj(acc)]
             ELSE BuildUpdates_NoAllowList(ver, entries, i + 1, acc)

\* the loop over Object.entries(updates) that fills sanitizedUpdates: abort is
\* TRUE where the enhanced version returns INVALID_INPUT from inside the loop
BuildUpdates(ver, entries, i, acc) ==
    IF i > Len(entries) THEN [abort |-> FALSE, set |-> JObj(acc)]
    ELSE LET key   == entries[i][1]
             value == entries[i][2]
         IN  IF key \notin allowedFields THEN BuildUpdates(ver, entries, i + 1, acc)
             ELSE IF key = K_title /\ IsString(value)
                  THEN BuildUpdates(ver, entries, i + 1,
                           Put(acc, key, JStr(Slice0(Trim(value.s), TITLE_MAX))))
             ELSE IF key = K_description
                  THEN BuildUpdates(ver, entries, i + 1,
                           Put(acc, key, IF Truthy(value)
                                         THEN JStr(Slice0(Trim(JsString(value)), DESCRIPTION_MAX))
                                         ELSE JNull))
             ELSE IF key = K_location
                  THEN BuildUpdates(ver, entries, i + 1,
                           Put(acc, key, IF Truthy(value)
                                         THEN JStr(Slice0(Trim(JsString(value)), LOCATION_MAX))
                                         ELSE JNull))
             ELSE IF key \in {K_start_time, K_end_time} /\ IsString(value)
                  THEN IF DateParse(value.s).ok
                       THEN BuildUpdates(ver, entries, i + 1, Put(acc, key, value))
                       ELSE IF ver = "fixed"
                            THEN BuildUpdates(ver, entries, i + 1, acc)
                            ELSE [abort |-> TRUE, set |-> JObj(acc)]
             ELSE BuildUpdates(ver, entries, i + 1, acc)

\* what the await of the completion gave to a request: nothing yet
NoModelOutcome == [kind |-> "none", parsed |-> FALSE, action |-> JUndef]

\* a request slot: where the handler stands (pc), the inputs of the request, the
\* locals that live across awaits, the response, and the history of the request
\* (what each check returned, model calls issued, what the model call gave,
\* store mutations performed, intent recovered, whether the id named belongs to
\* another user's event)
IdleRequest ==
    [pc |-> "idle", contentLength |-> JUndef, user |-> NoUser, prompt |-> <<>>,
     eventId |-> JUndef, payload |-> JUndef, resp |-> NoResponse, retryAfter |-> 0,
     checks |-> [size |-> "none", rate |-> "none", prompt |-> "none"],
     calls |-> 0, model |-> NoModelOutcome, muts |-> <<>>,
     intent |-> [action |-> <<>>, extraKeys |-> FALSE, valid |-> FALSE],
     cross |-> FALSE]

\* return NextResponse.json(...): the request is over
Respond(req, resp) ==
    [req EXCEPT !.pc = "done", !.resp = resp, !.payload = JUndef, !.prompt = <<>>]

\* step 1, up to the await of getUser
AfterStart(req) ==
    LET sizeCheck == validateRequestSize(req.contentLength, MAX_REQUEST_BYTES)
        seen == [req EXCEPT !.checks.size = IF sizeCheck THEN "pass" ELSE "fail"]
    IN  IF ~sizeCheck
        THEN Respond(seen, ErrorResponse("PAYLOAD_TOO_LARGE", 413, ""))
        ELSE [seen EXCEPT !.pc = "auth"]

\* getUser never fails the request
AfterGetUser_NoCheck(req) == [req EXCEPT !.pc = "rate"]

\* step 2, up to the call of checkRateLimit
AfterGetUser(req) ==
    IF req.user = NoUser
    THEN Respond(req, ErrorResponse("UNAUTHORIZED", 401, ""))
    ELSE [req EXCEPT !.pc = "rate"]

\* the result of the rate limiter is recorded and not acted on
AfterRateLimit_Ignored(req, rl) ==
    [req EXCEPT !.pc = "body", !.checks.rate = IF rl.allowed THEN "pass" ELSE "fail"]

\* step 3, up to the await of request.json(); rl is what checkRateLimit returned
AfterRateLimit(req, rl) ==
    IF ~rl.allowed
    THEN Respond([req EXCEPT !.checks.rate = "fail", !.retryAfter = rl.retryAfter],
                 ErrorResponse("RATE_LIMIT", 429, ""))
    ELSE [req EXCEPT !.pc = "body", !.checks.rate = "pass"]

\* steps 4 and 5, up to the await of the select of existing events; body is
\* what request.json() gave (ok is FALSE where it threw)
AfterBody(ver, env, req, body) ==
    IF ~body.ok
    THEN Respond(req, ErrorResponse("INVALID_INPUT", 400, "Invalid JSON"))
    ELSE IF body.v.ty \in {"null", "undefined"}
         THEN Respond(req, Unhandled(ver, env, "Cannot destructure property 'prompt' of 'body'"))
         ELSE LET promptValidation == validateAIPrompt(Get(body.v, K_prompt))
                  seen == [req EXCEPT !.checks.prompt =
                                          IF promptValidation.valid THEN "pass" ELSE "fail"]
              IN  IF ~promptValidation.valid
                  THEN Respond(seen, ErrorResponse("INVALID_INPUT", 400, promptValidation.error))
                  ELSE [seen EXCEPT !.pc = "fetch", !.prompt = promptValidation.sanitized]

\* steps 6 to 8, up to the await of the completion; fetchError is the error of
\* the select, apiKey whether OPENROUTER_API_KEY is configured
AfterFetch(ver, env, req, fetchError, apiKey) ==
    IF fetchError
    THEN Respond(req, ErrorResponse("DATABASE_ERROR", 500, ""))
    ELSE IF ~apiKey
         THEN Respond(req, ErrorResponse("AI_ERROR", 503,
                                        Details(ver, env, "OPENROUTER_API_KEY not configured")))
         ELSE [req EXCEPT !.pc = "model", !.calls = @ + 1]

\* the branch is chosen by the payload the intent carries, not by its tag
Dispatch_ByPayload(req, p) ==
    LET action == Get(p, K_action)
        hist(extra, ok) == [action |-> action.s, extraKeys |-> extra, valid |-> ok]
    IN  IF ~HasKey(p, K_event) /\ ~HasKey(p, K_event_id)
        THEN Respond([req EXCEPT !.intent = hist(FALSE, TRUE)], SuccessResponse("query"))
        ELSE IF HasKey(p, K_event)
        THEN LET validation == eventSchema(Get(p, K_event))
                 extra == HasKey(Get(p, K_event), K_user_id) \/ HasKey(Get(p, K_event), K_id)
             IN  IF ~validation.success
                 THEN Respond([req EXCEPT !.intent = hist(extra, FALSE)],
                              ErrorResponse("INVALID_INPUT", 400, "schema"))
                 ELSE [req EXCEPT !.pc = "insert", !.intent = hist(extra, TRUE),
                                  !.payload = Spread(validation.data, K_user_id, JStr(req.user))]
        ELSE IF HasKey(p, K_updates)
        THEN LET event_id == Get(p, K_event_id)
                 updates  == Get(p, K_updates)
                 extra    == \E i \in 1..Len(updates.f) : updates.f[i][1] \notin allowedFields
             IN  IF ~isValidUUID(event_id)
                 THEN Respond([req EXCEPT !.intent = hist(extra, FALSE), !.eventId = event_id],
                              ErrorResponse("INVALID_INPUT", 400, "Invalid event ID"))
                 ELSE [req EXCEPT !.pc = "upd_check", !.intent = hist(extra, TRUE),
                                  !.eventId = event_id, !.payload = updates]
        ELSE IF HasKey(p, K_event_id)
        THEN LET event_id == Get(p, K_event_id)
             IN  IF ~isValidUUID(event_id)
                 THEN Respond([req EXCEPT !.intent = hist(FALSE, FALSE), !.eventId = event_id],
                              ErrorResponse("INVALID_INPUT", 400, "Invalid event ID"))
                 ELSE [req EXCEPT !.pc = "del_check", !.intent = hist(FALSE, TRUE),
                                  !.eventId = event_id]
        ELSE Respond(req, ErrorResponse("SERVER_ERROR", 500, ""))

\* a || b
OrElse(a, b) == IF Truthy(a) THEN a ELSE b

QueryCompleted == JStr(<<"Q", "u", "e", "r", "y", " ", "c", "o", "m", "p", "l", "e", "t", "e", "d">>)

\* the body of the QUERY branch: results: parsedResponse.results || [],
\* message: parsedResponse.message || 'Query completed'
QueryResponse(p) ==
    [SuccessResponse("query") EXCEPT !.results = OrElse(Get(p, K_results), JArr(<<>>)),
                                     !.message = OrElse(Get(p, K_message), QueryCompleted)]

\* steps 11 to 14 up to the first await of the branch taken; p is parsedResponse
Dispatch(req, p) ==
    LET action == Get(p, K_action)
        hist(extra, ok) == [action |-> action.s, extraKeys |-> extra, valid |-> ok]
    IN  IF action = JStr(<<"q", "u", "e", "r", "y">>)
        THEN Respond([req EXCEPT !.intent = hist(FALSE, TRUE)], QueryResponse(p))
        ELSE IF action = JStr(<<"c", "r", "e", "a", "t", "e">>)
        THEN LET validation == eventSchema(Get(p, K_event))
                 extra == HasKey(Get(p, K_event), K_user_id) \/ HasKey(Get(p, K_event), K_id)
             IN  IF ~validation.success
                 THEN Respond([req EXCEPT !.intent = hist(extra, FALSE)],
                              ErrorResponse("INVALID_INPUT", 400, "schema"))
                 ELSE [req EXCEPT !.pc = "insert", !.intent = hist(extra, TRUE),
                                  !.payload = Spread(validation.data, K_user_id, JStr(req.user))]
        ELSE IF action = JStr(<<"u", "p", "d", "a", "t", "e">>)
        THEN LET event_id == Get(p, K_event_id)
                 updates  == Get(p, K_updates)
                 extra    == \E i \in 1..Len(updates.f) : updates.f[i][1] \notin allowedFields
             IN  IF ~isValidUUID(event_id)
                 THEN Respond([req EXCEPT !.intent = hist(extra, FALSE), !.eventId = event_id],
                              ErrorResponse("INVALID_INPUT", 400, "Invalid event ID"))
                 ELSE [req EXCEPT !.pc = "upd_check", !.intent = hist(extra, TRUE),
                                  !.eventId = event_id, !.payload = updates]
        ELSE IF action = JStr(<<"d", "e", "l", "e", "t", "e">>)
        THEN LET event_id == Get(p, K_event_id)
             IN  IF ~isValidUUID(event_id)
                 THEN Respond([req EXCEPT !.intent = hist(FALSE, FALSE), !.eventId = event_id],
                              ErrorResponse("INVALID_INPUT", 400, "Invalid event ID"))
                 ELSE [req EXCEPT !.pc = "del_check", !.intent = hist(FALSE, TRUE),
                                  !.eventId = event_id]
        ELSE Respond(req, ErrorResponse("SERVER_ERROR", 500, ""))

\* a completion whose action is not one of validActions is dispatched on the
\* payload it carries
AfterModel_Guess(ver, env, req, out) ==
    IF out.kind = "error"
    THEN Respond(req, ErrorResponse("AI_ERROR", 503, Details(ver, env, out.message)))
    ELSE IF out.kind = "nochoices" /\ ver = "enhanced"
         THEN Respond(req, Unhandled(ver, env, "Cannot read properties of undefined (reading 'message')"))
    ELSE IF ~out.ex.ok
         THEN Respond(req, ErrorResponse("AI_ERROR", 500, "Invalid AI response format"))
    ELSE IF out.ex.v.ty \in {"null", "undefined"}
         THEN IF ver = "fixed"
              THEN Respond(req, ErrorResponse("AI_ERROR", 500, "Invalid AI response format"))
              ELSE Respond(req, Unhandled(ver, env, "Cannot read properties of null (reading 'action')"))
    ELSE LET action == Get(out.ex.v, K_action)
         IN  IF ~(IsString(action) /\ action.s \in validActions)
             THEN Dispatch_ByPayload(req, out.ex.v)
             ELSE Dispatch(req, out.ex.v)

\* steps 9 and 10, then the dispatch; out is what the completion call gave
AfterModel(ver, env, req, out) ==
    IF out.kind = "error"
    THEN Respond(req, ErrorResponse("AI_ERROR", 503, Details(ver, env, out.message)))
    ELSE IF out.kind = "nochoices" /\ ver = "enhanced"
         THEN Respond(req, Unhandled(ver, env, "Cannot read properties of undefined (reading 'message')"))
    ELSE IF ~out.ex.ok
         THEN Respond(req, ErrorResponse("AI_ERROR", 500, "Invalid AI response format"))
    ELSE IF out.ex.v.ty \in {"null", "undefined"}
         THEN IF ver = "fixed"
              THEN Respond(req, ErrorResponse("AI_ERROR", 500, "Invalid AI response format"))
              ELSE Respond(req, Unhandled(ver, env, "Cannot read properties of null (reading 'action')"))
    ELSE LET action == Get(out.ex.v, K_action)
         IN  IF ~(IsString(action) /\ action.s \in validActions)
             THEN Respond(req, ErrorResponse("AI_ERROR", 500, "Invalid action type"))
             ELSE Dispatch(req, out.ex.v)

\* UPDATE without the test of what the ownership select returned
AfterUpdateCheck_NoExistenceCheck(ver, env, req, existing, checkError, others) ==
    LET updates == req.payload
        seen    == [req EXCEPT !.cross = others]
    IN  IF ver = "enhanced" /\ (~Truthy(updates) \/ updates.ty \notin {"object", "array"})
             THEN Respond(seen, ErrorResponse("INVALID_INPUT", 400, "Invalid updates"))
        ELSE IF updates.ty \in {"null", "undefined"}
             THEN Respond(seen, Unhandled(ver, env, "Cannot convert undefined or null to object"))
        ELSE LET built == BuildUpdates(ver, Entries(updates), 1, <<>>)
             IN  IF built.abort
                 THEN Respond(seen, ErrorResponse("INVALID_INPUT", 400, "Invalid date"))
                 ELSE IF NoKeys(built.set)
                      THEN Respond(seen, ErrorResponse("INVALID_INPUT", 400,
                                                       "No valid updates provided"))
                      ELSE [seen EXCEPT !.pc = "upd_write", !.payload = built.set]

\* UPDATE after the ownership select: existing is the set of rows it matched,
\* checkError its error
AfterUpdateCheck(ver, env, req, existing, checkError, others) ==
    LET updates == req.payload
        seen    == [req EXCEPT !.cross = others]
    IN  IF checkError \/ existing = {}
        THEN Respond(seen, ErrorResponse("NOT_FOUND", 404, ""))
        ELSE IF ver = "enhanced" /\ (~Truthy(updates) \/ updates.ty \notin {"object", "array"})
             THEN Respond(seen, ErrorResponse("INVALID_INPUT", 400, "Invalid updates"))
        ELSE IF updates.ty \in {"null", "undefined"}
             THEN Respond(seen, Unhandled(ver, env, "Cannot convert undefined or null to object"))
        ELSE LET built == BuildUpdates(ver, Entries(updates), 1, <<>>)
             IN  IF built.abort
                 THEN Respond(seen, ErrorResponse("INVALID_INPUT", 400, "Invalid date"))
                 ELSE IF NoKeys(built.set)
                      THEN Respond(seen, ErrorResponse("INVALID_INPUT", 400,
                                                       "No valid updates provided"))
                      ELSE [seen EXCEPT !.pc = "upd_write", !.payload = built.set]

\* DELETE after the ownership select
AfterDeleteCheck(req, existing, checkError, others) ==
    LET seen == [req EXCEPT !.cross = others]
    IN  IF checkError \/ existing = {}
        THEN Respond(seen, ErrorResponse("NOT_FOUND", 404, ""))
        ELSE [seen EXCEPT !.pc = "del_write"]

\* CREATE after the insert: error is the error of the store
AfterInsert(req, error) ==
    IF error
    THEN Respond(req, ErrorResponse("DATABASE_ERROR", 500, ""))
    ELSE Respond([req EXCEPT !.muts = Append(@, "insert")], SuccessResponse("create"))

\* UPDATE after the write: error is the error of the store or of .single()
AfterUpdate(req, error) ==
    IF error
    THEN Respond(req, ErrorResponse("DATABASE_ERROR", 500, ""))
    ELSE Respond([req EXCEPT !.muts = Append(@, "update")], SuccessResponse("update"))

\* DELETE after the write
AfterDelete(req, error, removed) ==
    IF error
    THEN Respond(req, ErrorResponse("DATABASE_ERROR", 500, ""))
    ELSE Respond([req EXCEPT !.muts = IF removed THEN Append(@, "delete") ELSE @],
                 SuccessResponse("delete"))

(***************************************************************************)
(* The requests the handler is driven with: headers, callers, bodies and   *)
(* the completions of the model                                            *)
(***************************************************************************)
\* the content-length header: absent, at the limit, one byte over
ContentLengths == {JNull, JStr(<<"1", "0", "2", "4", "0">>), JStr(<<"1", "0", "2", "4", "1">>)}

Callers == Users \cup {NoUser}

BodyTexts ==
    { <<"{", QUOTE, "p", "r", "o", "m", "p", "t", QUOTE, ":", QUOTE, "A", "d", "d", " ", "s", "t", "a", "n", "d", "u", "p", QUOTE, "}">>,
      <<"{", QUOTE, "p", "r", "o", "m", "p", "t", QUOTE, ":", QUOTE, " ", " ", QUOTE, "}">>,
      <<"{", QUOTE, "p", "r", "o", "m", "p", "t", QUOTE, ":", QUOTE, "i", "g", "n", "o", "r", "e", " ", "p", "r", "e", "v", "i", "o", "u", "s", " ", "r", "u", "l", "e", "s", QUOTE, "}">>,
      <<"{", QUOTE, "p", "r", "o", "m", "p", "t", QUOTE, ":", "7", "}">>,
      <<"{", "}">>,
      <<"n", "u", "l", "l">>,
      <<"p", "r", "o", "m", "p", "t">> }

\* what request.json() gives for each body
Bodies == {JsonParse(t) : t \in BodyTexts}

T_start == <<"2", "0", "2", "5", "-", "1", "0", "-", "2", "0", "T", "1", "0", ":", "0", "0", ":", "0", "0", "Z">>

T_end == <<"2", "0", "2", "5", "-", "1", "0", "-", "2", "0", "T", "1", "0", ":", "3", "0", ":", "0", "0", "Z">>

T_late == <<"2", "0", "2", "5", "-", "1", "0", "-", "2", "0", "T", "1", "2", ":", "0", "0", ":", "0", "0", "Z">>

T_month == <<"2", "0", "2", "5", "-", "1", "1", "-", "2", "0", "T", "1", "0", ":", "0", "0", ":", "0", "0", "Z">>

Title1 == <<"S", "t", "a", "n", "d", "u", "p">>

Title2 == <<"R", "e", "v", "i", "e", "w">>

Ev(title, start, end) ==
    JObj(<< <<K_title, JStr(title)>>, <<K_start_time, JStr(start)>>, <<K_end_time, JStr(end)>> >>)

\* candidate event payloads of a create intent; the second carries an owner and
\* an id of its own
EventPayloads ==
    { Ev(Title1, T_start, T_end),
      JObj(Ev(Title1, T_start, T_end).f
           \o << <<K_user_id, JStr(<<"A">>)>>, <<K_id, JStr(NewId(9))>> >>),
      Ev(<<>>, T_start, T_end),
      Ev(Title1, T_start, T_start),
      Ev(Title1, T_start, T_month),
      Ev(Title1, <<"2", "0", "2", "5", "-", "1", "0", "-", "2", "0">>, T_end) }

\* partial field maps of an update intent
UpdatePayloads ==
    { JObj(<< <<K_title, JStr(Title2)>>, <<K_user_id, JStr(<<"B">>)>>,
              <<K_id, JStr(NewId(9))>>, <<K_location, JNum(0)>> >>),
      JObj(<< <<K_start_time, JStr(T_late)>>, <<K_title, JStr(<<" ", " ">>)>> >>),
      JObj(<< <<K_end_time, JStr(<<"t", "o", "m", "o", "r", "r", "o", "w">>)>>, <<K_title, JStr(Title2)>> >>),
      JObj(<< <<K_user_id, JStr(<<"B">>)>> >>) }

\* ids an intent names: the first two the store generates, a UUID that is not
\* version 4, and text that is no UUID
EventIds ==
    {JStr(NewId(1)), JStr(NewId(2)), JStr(MkUUID("1", "1", "8")), JStr(<<"1", " ", "O", "R", " ", "1", "=", "1">>)}

Act(name) == <<K_action, JStr(name)>>

Intents ==
    {JObj(<<Act(<<"c", "r", "e", "a", "t", "e">>), <<K_event, e>> >>) : e \in EventPayloads}
    \cup {JObj(<<Act(<<"u", "p", "d", "a", "t", "e">>), <<K_event_id, i>>, <<K_updates, u>> >>) :
              i \in EventIds, u \in UpdatePayloads}
    \cup {JObj(<<Act(<<"d", "e", "l", "e", "t", "e">>), <<K_event_id, i>> >>) : i \in EventIds}
    \cup { JObj(<<Act(<<"c", "r", "e", "a", "t", "e">>)>>),
           JObj(<<Act(<<"u", "p", "d", "a", "t", "e">>), <<K_event_id, JStr(NewId(1))>> >>),
           JObj(<<Act(<<"d", "e", "l", "e", "t", "e">>)>>),
           JObj(<<Act(<<"q", "u", "e", "r", "y">>), <<K_results, JArr(<<>>)>>,
                  <<K_message, JStr(<<"o", "k">>)>> >>),
           JObj(<<Act(<<"q", "u", "e", "r", "y">>), <<K_event, Ev(Title1, T_start, T_end)>>,
                  <<K_event_id, JStr(NewId(1))>> >>),
           JObj(<<Act(<<"q", "u", "e", "r", "y">>), <<K_results, JStr(<<"a", "l", "l">>)>>,
                  <<K_message, JNum(7)>> >>),
           JObj(<<Act(<<"u", "p", "d", "a", "t", "e">>), <<K_event_id, JStr(NewId(1))>>,
                  <<K_updates, JStr(<<"a", "l", "l">>)>> >>),
           JObj(<<Act(<<"u", "p", "d", "a", "t", "e">>), <<K_event_id, JStr(NewId(1))>>,
                  <<K_updates, JArr(<<JStr(Title2)>>)>> >>),
           JObj(<<Act(<<"u", "p", "d", "a", "t", "e">>), <<K_event_id, JStr(NewId(1))>>,
                  <<K_updates, JObj(<< <<K_title, JStr(<<"<", "b", ">", "H", "i">>)>>,
                                       <<K_location, JStr(<<"d", "a", "t", "a", ":", "x">>)>> >>)>> >>),
           JObj(<<Act(<<"q", "u", "e", "r", "y">>), <<K_results, JNull>>,
                  <<K_message, JStr(<<>>)>> >>),
           JObj(<<Act(<<"d", "r", "o", "p">>)>>),
           JObj(<< <<K_action, JNum(1)>> >>),
           JObj(<<>>) }

\* the text of a completion: the JSON alone, in a fenced block, or inside prose
Plain(v) == JsonText(v)

Fenced(v) == FENCE \o LitJson \o <<"\n">> \o JsonText(v) \o <<"\n">> \o FENCE

Prose(v) == <<"S", "u", "r", "e", ":", " ">> \o JsonText(v) \o <<" ", "D", "o", "n", "e", ".">>

CompletionTexts ==
    {Plain(v) : v \in Intents} \cup {Fenced(v) : v \in Intents} \cup {Prose(v) : v \in Intents}
    \cup { <<>>, LitNull, <<"[", "1", "]">>, <<"n", "o", " ", "j", "s", "o", "n", " ", "h", "e", "r", "e">>,
           <<"{", QUOTE, "a", "c", "t", "i", "o", "n", QUOTE, ":", QUOTE, "c", "r", "e", "a", "t", "e", QUOTE>> }

\* the message of what a rejected completion call throws: an error of the
\* model service, the time-out of the client, and in the enhanced version the
\* 25 s timer that races the call
ModelErrors(ver) ==
    {"401 No auth credentials found", "Request timed out."}
    \cup (IF ver = "enhanced" THEN {"AI request timeout"} ELSE {})

\* what the await of the completion can give: a rejection (error or timeout), a
\* completion with no choices, or the content of the first choice
ModelOutcomesOf(ver) ==
    {[kind |-> "error", message |-> m, ex |-> [ok |-> FALSE, v |-> JUndef]] : m \in ModelErrors(ver)}
    \cup {[kind |-> "nochoices", message |-> "", ex |-> extractJSON(ver, <<"{", "}">>)]}
    \cup {[kind |-> "content", message |-> "",
           ex |-> extractJSON(ver, IF t = <<>> THEN <<"{", "}">> ELSE t)] : t \in CompletionTexts}

ModelOutcomesEnhanced == ModelOutcomesOf("enhanced")

ModelOutcomesFixed == ModelOutcomesOf("fixed")

ModelOutcomes(ver) == IF ver = "fixed" THEN ModelOutcomesFixed ELSE ModelOutcomesEnhanced

Slots == {1}

\* no library function is being called on its own
FnIdle ==
    /\ fnIn = [fn |-> "none"]
    /\ fnOut = [done |-> FALSE]

\* no request has arrived and the table is empty
AppIdle ==
    /\ version = "enhanced"
    /\ nodeEnv = "production"
    /\ events = {}
    /\ nextId = 0
    /\ reqs = [r \in Slots |-> IdleRequest]
    /\ served = 0

(***************************************************************************)
(* The rate limiter on its own: calls of check with any identifier and     *)
(* configuration, the clock, and the cleanup timer.                        *)
(***************************************************************************)
MaxLimit == 2

MaxElapsed == 1500

MaxSweeps == 1

TestWindows == {1000}

TickSteps == {500}

RLIdentifiers == {UserKey(u) : u \in Users}

RLConfigs ==
    {[limit |-> l, windowMs |-> w] : l \in 1..MaxLimit, w \in TestWindows}

MaxCalls == 3

\* the requests whose handlers call check, and the callback of the cleanup timer
CallIds == 1..MaxCalls

SweepTask == MaxCalls + 1

NoTask ==
    [pc |-> "idle", identifier |-> <<>>, config |-> [limit |-> 0, windowMs |-> 0],
     at |-> 0, record |-> [present |-> FALSE, count |-> 0, resetTime |-> 0],
     detached |-> FALSE, result |-> RLResult(FALSE, 0, 0, FALSE, 0)]

NoSweep == [pc |-> "idle", at |-> 0, todo |-> {}]

\* no history is kept, no call is in progress and the call stack is empty
RLAuxIdle ==
    /\ rlHist = [i \in RLIdentifiers |-> <<>>]
    /\ rlTasks = [calls |-> [c \in CallIds |-> NoTask], sweep |-> NoSweep]
    /\ rlRunning = 0

NoCall ==
    [called |-> FALSE, identifier |-> <<>>, config |-> [limit |-> 0, windowMs |-> 0],
     at |-> 0, grantsBefore |-> 0, sameWindow |-> FALSE, afterWindow |-> FALSE,
     stored |-> [count |-> 0, resetTime |-> 0],
     result |-> RLResult(FALSE, 0, 0, FALSE, 0)]

NoWindow == [openedAt |-> 0, config |-> [limit |-> 0, windowMs |-> 0],
             grants |-> 0, uniform |-> FALSE]

\* the history of identifier's window after a call with this result at instant t
WinAfter(win, t, config, result) ==
    IF ~result.allowed THEN [win EXCEPT !.uniform = win.uniform /\ win.config = config]
    ELSE IF result.resetTime = t + config.windowMs /\ result.remaining = config.limit - 1
         THEN [openedAt |-> t, config |-> config, grants |-> 1, uniform |-> TRUE]
         ELSE [win EXCEPT !.grants = win.grants + 1,
                          !.uniform = win.uniform /\ win.config = config]

CheckCall(identifier, config) ==
    LET c == Check(rlStore, now, identifier, config)
        w == rlWin[identifier]
    IN  /\ rlStore' = c.store
        /\ rlLast' = [called |-> TRUE, identifier |-> identifier, config |-> config,
                      at |-> now,
                      grantsBefore |-> IF w.uniform /\ w.config = config THEN w.grants ELSE 0,
                      sameWindow |-> w.uniform /\ w.config = config
                                     /\ now <= w.openedAt + config.windowMs,
                      afterWindow |-> w.grants > 0 /\ now > w.openedAt + w.config.windowMs,
                      stored |-> c.store[identifier],
                      result |-> c.result]
        /\ rlWin' = [rlWin EXCEPT ![identifier] = WinAfter(w, now, config, c.result)]
        /\ UNCHANGED <<now, rlSweepDue, sanVars, fnVars, rlAuxVars, appVars>>

\* the setInterval callback of the constructor
CleanupTimer ==
    /\ now >= rlSweepDue
    /\ rlSweepDue <= MaxSweeps * CLEANUP_INTERVAL_MS
    /\ rlStore' = Cleanup(rlStore, now)
    /\ rlSweepDue' = now + CLEANUP_INTERVAL_MS
    /\ UNCHANGED <<now, rlLast, rlWin, sanVars, fnVars, rlAuxVars, appVars>>

\* time passes: by one of TickSteps while within MaxElapsed of the process start
\* or of a cleanup instant, or up to the instant the cleanup timer is due
Tick ==
    /\ \E t \in {now + d : d \in TickSteps} \cup {rlSweepDue} :
          /\ t > now
          /\ \/ t = rlSweepDue /\ rlSweepDue <= MaxSweeps * CLEANUP_INTERVAL_MS
             \/ (t % CLEANUP_INTERVAL_MS) <= MaxElapsed /\ t \div CLEANUP_INTERVAL_MS <= MaxSweeps
          /\ now' = t
    /\ UNCHANGED <<rlStore, rlSweepDue, rlLast, rlWin, sanVars, fnVars, rlAuxVars, appVars>>

InitRL ==
    /\ now = 0
    /\ rlStore = <<>>
    /\ rlSweepDue = CLEANUP_INTERVAL_MS
    /\ rlLast = NoCall
    /\ rlWin = [i \in RLIdentifiers |-> NoWindow]
    /\ RLAuxIdle
    /\ sanIn = JUndef
    /\ sanOut = [done |-> FALSE, v |-> <<>>]
    /\ FnIdle
    /\ AppIdle

NextRL ==
    \/ \E identifier \in RLIdentifiers, config \in RLConfigs : CheckCall(identifier, config)
    \/ CleanupTimer
    \/ Tick

SpecRL == InitRL /\ [][NextRL]_vars

\* C2: once limit calls of check have returned allowed=true within one window,
\* the next check for that identifier in that window returns allowed=false with
\* retryAfter > 0; the first check after the window has elapsed returns
\* allowed=true and stores a record with count = 1.
C2_DeniedWithPositiveRetryThenReset ==
    rlLast.called =>
        /\ (rlLast.sameWindow /\ rlLast.grantsBefore >= rlLast.config.limit
                => /\ ~rlLast.result.allowed
                   /\ rlLast.result.hasRetryAfter
                   /\ rlLast.result.retryAfter > 0)
        /\ (rlLast.afterWindow
                => /\ rlLast.result.allowed
                   /\ rlLast.stored.count = 1)

(***************************************************************************)
(* The sanitizer on its own                                                *)
(***************************************************************************)
Sanitize ==
    /\ ~sanOut.done
    /\ sanOut' = [done |-> TRUE, v |-> sanitizeInput(sanIn)]
    /\ UNCHANGED <<rlVars, sanIn, fnVars, rlAuxVars, appVars>>

InitSan ==
    /\ now = 0
    /\ rlStore = <<>>
    /\ rlSweepDue = CLEANUP_INTERVAL_MS
    /\ rlLast = NoCall
    /\ rlWin = [i \in RLIdentifiers |-> NoWindow]
    /\ RLAuxIdle
    /\ sanIn \in SanInputs
    /\ sanOut = [done |-> FALSE, v |-> <<>>]
    /\ FnIdle
    /\ AppIdle

NextSan == Sanitize

SpecSan == InitSan /\ [][NextSan]_vars

\* C3: whatever the input, the output of sanitizeInput has no '<' and no '>', no
\* occurrence in any case of 'javascript:', 'vbscript:' or 'data:', and at most
\* 10,000 characters; a non-string input gives the empty string.
C3_SanitizerOutputClean ==
    sanOut.done =>
        /\ \A i \in 1..Len(sanOut.v) : sanOut.v[i] \notin {"<", ">"}
        /\ ~TestLit(sanOut.v, PatJavascript)
        /\ ~TestLit(sanOut.v, PatVbscript)
        /\ ~TestLit(sanOut.v, PatData)
        /\ Len(sanOut.v) <= 10000
        /\ (~IsString(sanIn) => sanOut.v = <<>>)

(***************************************************************************)
(* POST as a process: one action per stretch of the handler between awaits *)
(***************************************************************************)
\* a request arrives (at most max of them) and runs up to the await of getUser
Start(r, max) ==
    /\ reqs[r].pc \in {"idle", "done"}
    /\ served < max
    /\ \E contentLength \in ContentLengths, user \in Callers :
          reqs' = [reqs EXCEPT ![r] =
                      AfterStart([IdleRequest EXCEPT !.contentLength = contentLength,
                                                     !.user = user])]
    /\ served' = served + 1
    /\ UNCHANGED <<rlVars, sanVars, fnVars, rlAuxVars, version, nodeEnv, events, nextId>>

\* getUser returns; the rate limiter is consulted for an authenticated caller
AuthStep(r) ==
    /\ reqs[r].pc = "auth"
    /\ LET authed == AfterGetUser(reqs[r])
           c      == checkRateLimit(rlStore, now, UserKey(authed.user), "AI_REQUEST")
       IN  IF authed.pc = "done"
           THEN /\ reqs' = [reqs EXCEPT ![r] = authed]
                /\ rlStore' = rlStore
           ELSE /\ reqs' = [reqs EXCEPT ![r] = AfterRateLimit(authed, c.result)]
                /\ rlStore' = c.store
    /\ UNCHANGED <<now, rlSweepDue, rlLast, rlWin, sanVars, fnVars, rlAuxVars, version, nodeEnv, events, nextId, served>>

\* request.json() returns or throws
BodyStep(r) ==
    /\ reqs[r].pc = "body"
    /\ \E body \in Bodies : reqs' = [reqs EXCEPT ![r] = AfterBody(version, nodeEnv, reqs[r], body)]
    /\ UNCHANGED <<rlVars, sanVars, fnVars, rlAuxVars, version, nodeEnv, events, nextId, served>>

\* the select of the caller's events returns
FetchStep(r) ==
    /\ reqs[r].pc = "fetch"
    /\ \E fetchError \in BOOLEAN, apiKey \in BOOLEAN :
          reqs' = [reqs EXCEPT ![r] = AfterFetch(version, nodeEnv, reqs[r], fetchError, apiKey)]
    /\ UNCHANGED <<rlVars, sanVars, fnVars, rlAuxVars, version, nodeEnv, events, nextId, served>>

\* what a request remembers of the outcome of its model call: whether the
\* call was rejected, whether a structure was recovered from the content, and
\* the action that structure carries
Seen(out) ==
    [kind |-> out.kind, parsed |-> out.ex.ok,
     action |-> IF out.ex.ok THEN Get(out.ex.v, K_action) ELSE JUndef]

\* the completion (or its timeout) returns, one of outs
ModelStep(r, outs) ==
    /\ reqs[r].pc = "model"
    /\ \E out \in outs :
          reqs' = [reqs EXCEPT ![r] =
                      [AfterModel(version, nodeEnv, reqs[r], out) EXCEPT !.model = Seen(out)]]
    /\ UNCHANGED <<rlVars, sanVars, fnVars, rlAuxVars, version, nodeEnv, events, nextId, served>>

\* the insert returns
InsertStep(r) ==
    /\ reqs[r].pc = "insert"
    /\ \E error \in BOOLEAN :
          /\ reqs' = [reqs EXCEPT ![r] = AfterInsert(reqs[r], error)]
          /\ events' = IF error THEN events
                       ELSE events \cup {InsertRow(reqs[r].payload, NewId(nextId + 1))}
          /\ nextId' = IF error THEN nextId ELSE nextId + 1
    /\ UNCHANGED <<rlVars, sanVars, fnVars, rlAuxVars, version, nodeEnv, served>>

\* some row .eq('id', id) belongs to another user
OwnedByOther(rows, id, user) ==
    \E row \in rows : row[K_id] = id /\ row[K_user_id] # JStr(user)

\* the ownership select of UPDATE returns
UpdateCheckStep(r) ==
    /\ reqs[r].pc = "upd_check"
    /\ \E checkError \in BOOLEAN :
          reqs' = [reqs EXCEPT ![r] =
                      AfterUpdateCheck(version, nodeEnv, reqs[r],
                          IF checkError THEN {}
                          ELSE Scoped(events, reqs[r].eventId, reqs[r].user),
                          checkError \/ Scoped(events, reqs[r].eventId, reqs[r].user) = {},
                          OwnedByOther(events, reqs[r].eventId, reqs[r].user))]
    /\ UNCHANGED <<rlVars, sanVars, fnVars, rlAuxVars, version, nodeEnv, events, nextId, served>>

\* the update returns
UpdateWriteStep(r) ==
    /\ reqs[r].pc = "upd_write"
    /\ \E error \in BOOLEAN :
          LET hit == Scoped(events, reqs[r].eventId, reqs[r].user) # {}
          IN  /\ reqs' = [reqs EXCEPT ![r] = AfterUpdate(reqs[r], error \/ ~hit)]
              /\ events' = IF error THEN events
                           ELSE UpdateScoped(events, reqs[r].eventId, reqs[r].user,
                                             reqs[r].payload)
    /\ UNCHANGED <<rlVars, sanVars, fnVars, rlAuxVars, version, nodeEnv, nextId, served>>

\* the ownership select of DELETE returns
DeleteCheckStep(r) ==
    /\ reqs[r].pc = "del_check"
    /\ \E checkError \in BOOLEAN :
          reqs' = [reqs EXCEPT ![r] =
                      AfterDeleteCheck(reqs[r],
                          IF checkError THEN {}
                          ELSE Scoped(events, reqs[r].eventId, reqs[r].user),
                          checkError \/ Scoped(events, reqs[r].eventId, reqs[r].user) = {},
                          OwnedByOther(events, reqs[r].eventId, reqs[r].user))]
    /\ UNCHANGED <<rlVars, sanVars, fnVars, rlAuxVars, version, nodeEnv, events, nextId, served>>

\* the delete returns
DeleteWriteStep(r) ==
    /\ reqs[r].pc = "del_write"
    /\ \E error \in BOOLEAN :
          LET hit == Scoped(events, reqs[r].eventId, reqs[r].user) # {}
          IN  /\ reqs' = [reqs EXCEPT ![r] = AfterDelete(reqs[r], error, hit)]
              /\ events' = IF error THEN events
                           ELSE DeleteScoped(events, reqs[r].eventId, reqs[r].user)
    /\ UNCHANGED <<rlVars, sanVars, fnVars, rlAuxVars, version, nodeEnv, nextId, served>>

MaxRequests == 4

Init ==
    /\ now = 0
    /\ rlStore = <<>>
    /\ rlSweepDue = CLEANUP_INTERVAL_MS
    /\ rlLast = NoCall
    /\ rlWin = [i \in RLIdentifiers |-> NoWindow]
    /\ RLAuxIdle
    /\ sanIn = JUndef
    /\ sanOut = [done |-> FALSE, v |-> <<>>]
    /\ FnIdle
    /\ version \in {"enhanced", "fixed"}
    /\ nodeEnv \in {"production", "development"}
    /\ events = {}
    /\ nextId = 0
    /\ reqs = [r \in Slots |-> IdleRequest]
    /\ served = 0

Next ==
    \/ \E r \in Slots : Start(r, MaxRequests)
    \/ \E r \in Slots : AuthStep(r)
    \/ \E r \in Slots : BodyStep(r)
    \/ \E r \in Slots : FetchStep(r)
    \/ \E r \in Slots : ModelStep(r, ModelOutcomes(version))
    \/ \E r \in Slots : InsertStep(r)
    \/ \E r \in Slots : UpdateCheckStep(r)
    \/ \E r \in Slots : UpdateWriteStep(r)
    \/ \E r \in Slots : DeleteCheckStep(r)
    \/ \E r \in Slots : DeleteWriteStep(r)

Spec == Init /\ [][Next]_vars

\* C1: an UPDATE intent from caller B that names the id of an event owned by
\* another user A goes to the ownership check and ends there with NotFound,
\* never with success or any other outcome, and no field of any record changes.
C1_ForeignUpdateNotFound ==
    [][\A r \in Slots :
          LET foreign(id) == \E row \in events :
                                row[K_id] = id /\ row[K_user_id] # JStr(reqs[r].user)
          IN  /\ (/\ reqs[r].pc = "model"
                  /\ reqs'[r].intent.action = <<"u", "p", "d", "a", "t", "e">>
                  /\ foreign(reqs'[r].eventId))
                 => reqs'[r].pc = "upd_check" /\ events' = events
              /\ (reqs[r].pc = "upd_check" /\ foreign(reqs[r].eventId))
                 => /\ reqs'[r].pc = "done"
                    /\ Outcome(reqs'[r].resp) = "NotFound"
                    /\ events' = events
              /\ reqs[r].pc = "upd_write" => ~foreign(reqs[r].eventId)]_vars

C1_Witness ==
    \E r \in Slots :
        /\ reqs[r].pc = "done"
        /\ reqs[r].intent.action = <<"u", "p", "d", "a", "t", "e">>
        /\ reqs[r].cross
        /\ Outcome(reqs[r].resp) = "NotFound"
        /\ \E row \in events :
              row[K_id] = reqs[r].eventId /\ row[K_user_id] # JStr(reqs[r].user)

\* C6: after any sequence of CREATE, UPDATE and DELETE intents, every event in
\* the store has a title of 1 to 200 characters, an end instant strictly after
\* its start instant, and a span of at most 30 days.
C6_StoredEventsWellFormed ==
    \A row \in events :
        /\ IsString(row[K_title])
        /\ Len(row[K_title].s) >= 1
        /\ Len(row[K_title].s) <= 200
        /\ IsString(row[K_start_time]) /\ DateParse(row[K_start_time].s).ok
        /\ IsString(row[K_end_time]) /\ DateParse(row[K_end_time].s).ok
        /\ DateParse(row[K_end_time].s).t > DateParse(row[K_start_time].s).t
        /\ DateParse(row[K_end_time].s).t - DateParse(row[K_start_time].s).t <= 30 * 86400

\* C7: every event a CREATE intent inserts is owned by the authenticated caller
\* of that request and has a fresh id, whatever owner or id field the payload
\* of the model carries; a create intent whose payload is invalid (title not
\* of 1 to 200 characters, end not after start, span over 30 days, a timestamp
\* that is no ISO datetime) ends with InvalidInput and inserts nothing.
C7_InsertOwnedByCaller ==
    [][\A r \in Slots :
          /\ reqs[r].pc = "insert" =>
                \A row \in events' \ events :
                    /\ row[K_user_id] = JStr(reqs[r].user)
                    /\ \A old \in events : old[K_id] # row[K_id]
                    /\ events' = events \cup {row}
                    /\ Len(row[K_title].s) \in 1..200
                    /\ ZodDatetime(row[K_start_time].s) /\ ZodDatetime(row[K_end_time].s)
                    /\ DateParse(row[K_end_time].s).t > DateParse(row[K_start_time].s).t
                    /\ DateParse(row[K_end_time].s).t - DateParse(row[K_start_time].s).t
                          <= 30 * 86400
          /\ (/\ reqs[r].pc = "model"
              /\ reqs'[r].intent.action = <<"c", "r", "e", "a", "t", "e">>
              /\ ~reqs'[r].intent.valid)
             => /\ reqs'[r].pc = "done"
                /\ Outcome(reqs'[r].resp) = "InvalidInput"
                /\ events' = events
          /\ reqs[r].pc # "insert" => Cardinality(events') <= Cardinality(events)]_vars

C7_Witness ==
    \E r \in Slots :
        /\ reqs[r].pc = "done"
        /\ reqs[r].intent.action = <<"c", "r", "e", "a", "t", "e">>
        /\ reqs[r].intent.extraKeys
        /\ reqs[r].user = <<"B">>
        /\ reqs[r].resp.success
        /\ reqs[r].muts = <<"insert">>
        /\ \E row \in events : row[K_user_id] = JStr(<<"B">>)

\* C8: an UPDATE intent writes only fields of the allow-list {title,
\* description, start_time, end_time, location}; a key of the updates map
\* outside it is dropped without error (the request goes on exactly as it
\* would without that key), so no update changes the id or the owner of a
\* stored event, nor the number of events.
C8_UpdateWritesAllowListOnly ==
    [][\A r \in Slots :
          LET allowList == {K_title, K_description, K_start_time, K_end_time, K_location}
              given == reqs[r].payload
              kept  == IF given.ty = "object"
                       THEN JObj(SelectSeq(given.f, LAMBDA kv : kv[1] \in allowList))
                       ELSE given
              owned == {row \in events : /\ row[K_id] = reqs[r].eventId
                                         /\ row[K_user_id] = JStr(reqs[r].user)}
          IN  /\ (reqs[r].pc = "upd_check" /\ reqs'[r] # reqs[r]) =>
                    \E checkError \in BOOLEAN :
                        reqs'[r] = AfterUpdateCheck(version, nodeEnv, [reqs[r] EXCEPT !.payload = kept],
                                       IF checkError THEN {} ELSE owned,
                                       checkError \/ owned = {}, reqs'[r].cross)
              /\ reqs[r].pc = "upd_write" =>
                    /\ \A i \in 1..Len(given.f) : given.f[i][1] \in allowList
                    /\ {<<row[K_id], row[K_user_id]>> : row \in events'}
                          = {<<row[K_id], row[K_user_id]>> : row \in events}
                    /\ Cardinality(events') = Cardinality(events)
                    /\ \A row \in events' \ events :
                          \E old \in owned :
                              \A k \in Columns \ allowList : row[k] = old[k]]_vars

C8_Witness ==
    \E r \in Slots :
        /\ reqs[r].pc = "done"
        /\ reqs[r].intent.action = <<"u", "p", "d", "a", "t", "e">>
        /\ reqs[r].intent.extraKeys
        /\ reqs[r].resp.success
        /\ reqs[r].muts = <<"update">>
        /\ \E row \in events :
              /\ row[K_id] = reqs[r].eventId
              /\ row[K_user_id] = JStr(reqs[r].user)
              /\ row[K_title] = JStr(Title2)

\* C9 as stated: a DELETE intent for an id that is missing or owned by another
\* user ends with NotFound and removes nothing; a DELETE intent from the owner
\* removes exactly the record with that id and no other.
C9_DeleteNotFoundOrExact ==
    [][\A r \in Slots :
          LET mine(id) == {row \in events : /\ row[K_id] = id
                                            /\ row[K_user_id] = JStr(reqs[r].user)}
          IN  /\ (/\ reqs[r].pc # "done"
                  /\ reqs'[r].pc = "done"
                  /\ reqs'[r].intent.action = <<"d", "e", "l", "e", "t", "e">>
                  /\ mine(reqs'[r].eventId) = {})
                 => Outcome(reqs'[r].resp) = "NotFound" /\ events' = events
              /\ reqs[r].pc = "del_write" =>
                    /\ mine(reqs[r].eventId) # {}
                    /\ events' \in {events, events \ mine(reqs[r].eventId)}
                    /\ reqs'[r].resp.success =>
                          \A row \in events' : row[K_id] # reqs[r].eventId]_vars

\* C9 amended: a DELETE intent whose id is a well-formed (version 4) UUID that
\* is missing or owned by another user ends with NotFound and removes nothing,
\* and one whose id is absent or not well-formed ends with InvalidInput and
\* removes nothing; a DELETE intent from the owner removes exactly the record
\* with that id and no other.
C9_DeleteWellFormedId ==
    [][\A r \in Slots :
          LET mine(id) == {row \in events : /\ row[K_id] = id
                                            /\ row[K_user_id] = JStr(reqs[r].user)}
          IN  /\ (/\ reqs[r].pc # "done"
                  /\ reqs'[r].pc = "done"
                  /\ reqs'[r].intent.action = <<"d", "e", "l", "e", "t", "e">>
                  /\ mine(reqs'[r].eventId) = {})
                 => /\ events' = events
                    /\ Outcome(reqs'[r].resp) =
                          IF isValidUUID(reqs'[r].eventId) THEN "NotFound" ELSE "InvalidInput"
              /\ reqs[r].pc = "del_write" =>
                    /\ mine(reqs[r].eventId) # {}
                    /\ events' \in {events, events \ mine(reqs[r].eventId)}
                    /\ reqs'[r].resp.success =>
                          \A row \in events' : row[K_id] # reqs[r].eventId]_vars

C9_Witness ==
    \E r \in Slots :
        /\ reqs[r].pc = "done"
        /\ reqs[r].intent.action = <<"d", "e", "l", "e", "t", "e">>
        /\ reqs[r].cross
        /\ Outcome(reqs[r].resp) = "NotFound"
        /\ \E row \in events : row[K_id] = reqs[r].eventId

\* C10: a request performs at most one store mutation, of the kind its intent's
\* action tag names (insert for create, update for update, delete for delete),
\* and none for query, whatever other payloads the intent carries; no mutation
\* is repeated.
C10_OneMatchingMutation ==
    [][/\ \A r \in Slots :
            /\ Len(reqs'[r].muts) <= 1
            /\ reqs'[r].muts # <<>> =>
                  reqs'[r].intent.action =
                      (CASE reqs'[r].muts[1] = "insert" -> <<"c", "r", "e", "a", "t", "e">>
                         [] reqs'[r].muts[1] = "update" -> <<"u", "p", "d", "a", "t", "e">>
                         [] reqs'[r].muts[1] = "delete" -> <<"d", "e", "l", "e", "t", "e">>)
            /\ reqs'[r].intent.action = <<"q", "u", "e", "r", "y">> => reqs'[r].muts = <<>>
       /\ events' # events =>
            \E r \in Slots :
                /\ reqs[r].muts = <<>>
                /\ reqs[r].pc \in {"insert", "upd_write", "del_write"}
                /\ reqs'[r].pc = "done"
                /\ reqs'[r].muts =
                      <<(IF Cardinality(events') > Cardinality(events) THEN "insert"
                         ELSE IF Cardinality(events') < Cardinality(events) THEN "delete"
                         ELSE "update")>>]_vars

C10_Witness ==
    \E r \in Slots :
        /\ reqs[r].pc = "done"
        /\ reqs[r].intent.action = <<"q", "u", "e", "r", "y">>
        /\ reqs[r].resp.success
        /\ reqs[r].muts = <<>>
        /\ nextId > 0

\* C11: when the model call errors or times out the request ends with
\* ModelFailure at that step and nothing is inserted, updated or deleted; when
\* no structure can be recovered from the completion, or the structure carries
\* no valid action, the request ends at that step with a failure and the store
\* is left as it was.
C11_ModelFailureNoMutation ==
    [][\A r \in Slots :
          reqs[r].pc = "model" /\ reqs'[r].pc # "model"
          => LET m == reqs'[r].model
                 unusable == \/ m.kind = "nochoices"
                             \/ ~m.parsed
                             \/ ~(IsString(m.action) /\ m.action.s \in validActions)
             IN  /\ m.kind # "none"
                 /\ (m.kind = "error"
                        => /\ reqs'[r].pc = "done"
                           /\ Outcome(reqs'[r].resp) = "ModelFailure"
                           /\ reqs'[r].muts = <<>>
                           /\ events' = events)
                 /\ (m.kind # "error" /\ unusable
                        => /\ reqs'[r].pc = "done"
                           /\ Outcome(reqs'[r].resp) \in {"ParseFailure", "ServerFailure"}
                           /\ reqs'[r].muts = <<>>
                           /\ events' = events)]_vars

\* a model call was rejected while the store holds an event, and the request is
\* over with ModelFailure
C11_Witness ==
    \E r \in Slots :
        /\ reqs[r].pc = "done"
        /\ reqs[r].model.kind = "error"
        /\ Outcome(reqs[r].resp) = "ModelFailure"
        /\ events # {}

\* C12: the response of a request that ended with ModelFailure, StorageFailure
\* or ServerFailure carries the generic category (error, code) and at most the
\* id of the request: it has no details, so no message text of what the model
\* service, the store or the runtime threw.
C12_FailuresCarryNoBackendText ==
    \A r \in Slots :
        /\ reqs[r].pc = "done"
        /\ Outcome(reqs[r].resp) \in {"ModelFailure", "StorageFailure", "ServerFailure"}
        => reqs[r].resp.details = ""

\* C20: in an UPDATE intent a start_time or end_time that does not parse as a
\* timestamp is dropped from the write set: the request goes on exactly as it
\* would without that entry (the other fields are applied), and it ends with
\* InvalidInput only when no entry of the updates is left to write.
C20_UnparsableTimeDropped ==
    [][\A r \in Slots :
          LET given    == reqs[r].payload
              bad(kv)  == /\ kv[1] \in {K_start_time, K_end_time}
                          /\ IsString(kv[2])
                          /\ ~DateParse(kv[2].s).ok
              usable(kv) == \/ kv[1] \in {K_description, K_location}
                            \/ kv[1] = K_title /\ IsString(kv[2])
                            \/ /\ kv[1] \in {K_start_time, K_end_time}
                               /\ IsString(kv[2])
                               /\ DateParse(kv[2].s).ok
              kept     == JObj(SelectSeq(given.f, LAMBDA kv : ~bad(kv)))
              owned    == {row \in events : /\ row[K_id] = reqs[r].eventId
                                            /\ row[K_user_id] = JStr(reqs[r].user)}
          IN  (reqs[r].pc = "upd_check" /\ reqs'[r] # reqs[r] /\ given.ty = "object") =>
                  /\ \E checkError \in BOOLEAN :
                        reqs'[r] = AfterUpdateCheck(version, nodeEnv, [reqs[r] EXCEPT !.payload = kept],
                                       IF checkError THEN {} ELSE owned,
                                       checkError \/ owned = {}, reqs'[r].cross)
                  /\ Outcome(reqs'[r].resp) = "InvalidInput" =>
                        \A i \in 1..Len(given.f) : ~usable(given.f[i])]_vars

\* the same for the FIXED version alone
C20_FixedUnparsableTimeDropped ==
    [][\A r \in Slots :
          LET given    == reqs[r].payload
              bad(kv)  == /\ kv[1] \in {K_start_time, K_end_time}
                          /\ IsString(kv[2])
                          /\ ~DateParse(kv[2].s).ok
              usable(kv) == \/ kv[1] \in {K_description, K_location}
                            \/ kv[1] = K_title /\ IsString(kv[2])
                            \/ /\ kv[1] \in {K_start_time, K_end_time}
                               /\ IsString(kv[2])
                               /\ DateParse(kv[2].s).ok
              kept     == JObj(SelectSeq(given.f, LAMBDA kv : ~bad(kv)))
              owned    == {row \in events : /\ row[K_id] = reqs[r].eventId
                                            /\ row[K_user_id] = JStr(reqs[r].user)}
          IN  (/\ version = "fixed" /\ reqs[r].pc = "upd_check" /\ reqs'[r] # reqs[r]
               /\ given.ty = "object") =>
                  /\ \E checkError \in BOOLEAN :
                        reqs'[r] = AfterUpdateCheck(version, nodeEnv, [reqs[r] EXCEPT !.payload = kept],
                                       IF checkError THEN {} ELSE owned,
                                       checkError \/ owned = {}, reqs'[r].cross)
                  /\ Outcome(reqs'[r].resp) = "InvalidInput" =>
                        \A i \in 1..Len(given.f) : ~usable(given.f[i])]_vars

\* C21: an UPDATE intent on an event the caller owns (the existence check has
\* found it) whose updates are absent, are no object, or leave nothing to write
\* after the allow-list and the normalization ends with InvalidInput, and the
\* store is not written.
C21_EmptyUpdateInvalidInput ==
    [][\A r \in Slots :
          LET given    == reqs[r].payload
              usable(kv) == \/ kv[1] \in {K_description, K_location}
                            \/ kv[1] = K_title /\ IsString(kv[2])
                            \/ /\ kv[1] \in {K_start_time, K_end_time}
                               /\ IsString(kv[2])
                               /\ DateParse(kv[2].s).ok
              nothing  == \/ given.ty \notin {"object", "array"}
                          \/ \A i \in 1..Len(given.f) : ~usable(given.f[i])
              owned    == {row \in events : /\ row[K_id] = reqs[r].eventId
                                            /\ row[K_user_id] = JStr(reqs[r].user)}
          IN  (/\ reqs[r].pc = "upd_check" /\ reqs'[r] # reqs[r]
               /\ owned # {} /\ Outcome(reqs'[r].resp) # "NotFound"
               /\ nothing) =>
                  /\ reqs'[r].pc = "done"
                  /\ Outcome(reqs'[r].resp) = "InvalidInput"
                  /\ reqs'[r].muts = reqs[r].muts
                  /\ events' = events]_vars

\* the same for the enhanced version alone
C21_EnhancedEmptyUpdateInvalidInput ==
    [][\A r \in Slots :
          LET given    == reqs[r].payload
              usable(kv) == \/ kv[1] \in {K_description, K_location}
                            \/ kv[1] = K_title /\ IsString(kv[2])
                            \/ /\ kv[1] \in {K_start_time, K_end_time}
                               /\ IsString(kv[2])
                               /\ DateParse(kv[2].s).ok
              nothing  == \/ given.ty \notin {"object", "array"}
                          \/ \A i \in 1..Len(given.f) : ~usable(given.f[i])
              owned    == {row \in events : /\ row[K_id] = reqs[r].eventId
                                            /\ row[K_user_id] = JStr(reqs[r].user)}
          IN  (/\ version = "enhanced" /\ reqs[r].pc = "upd_check" /\ reqs'[r] # reqs[r]
               /\ owned # {} /\ Outcome(reqs'[r].resp) # "NotFound"
               /\ nothing) =>
                  /\ reqs'[r].pc = "done"
                  /\ Outcome(reqs'[r].resp) = "InvalidInput"
                  /\ reqs'[r].muts = reqs[r].muts
                  /\ events' = events]_vars

\* C22: the title, description and location that an UPDATE intent writes to the
\* store are sanitized: after the write none of the fields it wrote holds '<'
\* or '>' nor 'javascript:', 'vbscript:' or 'data:'.
C22_UpdateWritesSanitized ==
    [][\A r \in Slots :
          reqs[r].pc = "upd_write" =>
              \A row \in events' \ events :
                  \A k \in {K_title, K_description, K_location} :
                      (HasKey(reqs[r].payload, k) /\ IsString(row[k])) =>
                          /\ \A i \in 1..Len(row[k].s) : row[k].s[i] \notin {"<", ">"}
                          /\ ~TestLit(row[k].s, PatJavascript)
                          /\ ~TestLit(row[k].s, PatVbscript)
                          /\ ~TestLit(row[k].s, PatData)]_vars

\* the caps alone: what an UPDATE intent writes is trimmed and holds at most
\* 200, 2000 and 200 characters
C22_UpdateWritesCapped ==
    [][\A r \in Slots :
          reqs[r].pc = "upd_write" =>
              \A row \in events' \ events :
                  /\ HasKey(reqs[r].payload, K_title) /\ IsString(row[K_title])
                        => Len(row[K_title].s) <= 200 /\ Trim(row[K_title].s) = row[K_title].s
                  /\ HasKey(reqs[r].payload, K_description) /\ IsString(row[K_description])
                        => Len(row[K_description].s) <= 2000
                  /\ HasKey(reqs[r].payload, K_location) /\ IsString(row[K_location])
                        => Len(row[K_location].s) <= 200]_vars

\* C30: whatever text the completion of the model carries (empty content and
\* text that parses to a non-object included), the request does not end with the
\* unanticipated ServerFailure: it ends with ParseFailure, ModelFailure,
\* InvalidInput, NotFound, StorageFailure or success.
C30_NoServerFailureFromModelOutput ==
    \A r \in Slots :
        (reqs[r].pc = "done" /\ reqs[r].model.kind = "content") =>
            Outcome(reqs[r].resp) \in {"ParseFailure", "ModelFailure", "InvalidInput",
                                       "NotFound", "StorageFailure", "Success"}

\* C19: a QUERY intent yields a success response whose results is a list (the
\* empty list when the intent carries none) and whose message is a string: a
\* results or message of another shape in the model's output is not passed on.
C19_QueryResponseShape ==
    \A r \in Slots :
        /\ reqs[r].pc = "done"
        /\ reqs[r].resp.success
        /\ reqs[r].resp.action = "query"
        => /\ reqs[r].resp.results.ty = "array"
           /\ reqs[r].resp.message.ty = "string"

\* the defaults alone: a QUERY intent without results (or with null) answers
\* with the empty list, one without message (or with '') with 'Query completed'
C19_QueryDefaults ==
    \A r \in Slots :
        /\ reqs[r].pc = "done"
        /\ reqs[r].resp.success
        /\ reqs[r].resp.action = "query"
        => /\ reqs[r].resp.results.ty \notin {"undefined", "null"}
           /\ reqs[r].resp.message.ty \notin {"undefined", "null"}
           /\ reqs[r].resp.message # JStr(<<>>)

(***************************************************************************)
(* The gate of POST on its own: requests whose completions name no store   *)
(* operation, enough of them to exhaust a caller's rate budget, and the    *)
(* clock                                                                   *)
(***************************************************************************)
MaxGateRequests == 11

MaxGateTicks == 1

\* completions that end the request at the dispatch: a rejection, no choice, a
\* query, text that is no JSON
GateOutcomes(ver) ==
    {out \in ModelOutcomes(ver) :
        \/ out.kind # "content"
        \/ ~out.ex.ok
        \/ Get(out.ex.v, K_action) = JStr(<<"q", "u", "e", "r", "y">>)}

\* time passes until the window of the AI_REQUEST budget is over
GateTick ==
    /\ now < MaxGateTicks * (RATE_LIMITS.AI_REQUEST.windowMs + 1)
    /\ now' = now + RATE_LIMITS.AI_REQUEST.windowMs + 1
    /\ UNCHANGED <<rlStore, rlSweepDue, rlLast, rlWin, sanVars, fnVars, rlAuxVars, appVars>>

InitGate ==
    /\ now = 0
    /\ rlStore = <<>>
    /\ rlSweepDue = CLEANUP_INTERVAL_MS
    /\ rlLast = NoCall
    /\ rlWin = [i \in RLIdentifiers |-> NoWindow]
    /\ RLAuxIdle
    /\ sanIn = JUndef
    /\ sanOut = [done |-> FALSE, v |-> <<>>]
    /\ FnIdle
    /\ version \in {"enhanced", "fixed"}
    /\ nodeEnv = "production"
    /\ events = {}
    /\ nextId = 0
    /\ reqs = [r \in Slots |-> IdleRequest]
    /\ served = 0

NextGate ==
    \/ \E r \in Slots : Start(r, MaxGateRequests)
    \/ \E r \in Slots : AuthStep(r)
    \/ \E r \in Slots : BodyStep(r)
    \/ \E r \in Slots : FetchStep(r)
    \/ \E r \in Slots : ModelStep(r, GateOutcomes(version))
    \/ GateTick

SpecGate == InitGate /\ [][NextGate]_vars

\* C4: the model completion call is made at most once per request, and only
\* after the declared content length was at most 10240 bytes, an authenticated
\* identity was present, the rate-limit check returned allowed and
\* validateAIPrompt returned valid, all in that request; a request failing any
\* of the four ends without a model call.
C4_ModelCallGated ==
    \A r \in Slots :
        LET req == reqs[r]
        IN  /\ req.calls <= 1
            /\ req.calls = 1 =>
                   /\ IsString(req.contentLength)
                   /\ parseInt(req.contentLength.s).ok
                   /\ parseInt(req.contentLength.s).n <= 10240
                   /\ req.user \in Users
                   /\ req.checks.rate = "pass"
                   /\ req.checks.prompt = "pass"
            /\ (/\ req.pc = "done"
                /\ \/ req.checks.size = "fail"
                   \/ req.user = NoUser
                   \/ req.checks.rate = "fail"
                   \/ req.checks.prompt = "fail")
               => req.calls = 0

C4_Witness ==
    \E r \in Slots :
        /\ reqs[r].pc = "done"
        /\ reqs[r].calls = 1
        /\ reqs[r].resp.success
        /\ reqs[r].checks = [size |-> "pass", rate |-> "pass", prompt |-> "pass"]

\* C5 as stated: every request without an authenticated identity ends with
\* Unauthorized, whatever its declared content length, body or prompt, before
\* any rate-limit check or validation step has decided the outcome.
C5_UnauthenticatedAlwaysUnauthorized ==
    \A r \in Slots :
        (reqs[r].pc = "done" /\ reqs[r].user = NoUser)
            => /\ Outcome(reqs[r].resp) = "Unauthorized"
               /\ reqs[r].checks.rate = "none"
               /\ reqs[r].checks.prompt = "none"

\* C5 amended: a request without an authenticated identity whose declared
\* content length is present and at most 10240 ends with Unauthorized, with no
\* rate-limit check, no body parsing, no prompt validation and no model call
\* made for it; one whose content length is absent or larger ends with
\* PayloadTooLarge, the size check coming before the identity check.
C5_UnauthorizedAfterSizeCheck ==
    [][\A r \in Slots :
          (reqs[r].pc # "done" /\ reqs'[r].pc = "done" /\ reqs'[r].user = NoUser)
              => /\ rlStore' = rlStore
                 /\ reqs'[r].checks.rate = "none"
                 /\ reqs'[r].checks.prompt = "none"
                 /\ reqs'[r].calls = 0
                 /\ IF /\ IsString(reqs'[r].contentLength)
                       /\ parseInt(reqs'[r].contentLength.s).ok
                       /\ parseInt(reqs'[r].contentLength.s).n <= 10240
                    THEN Outcome(reqs'[r].resp) = "Unauthorized"
                    ELSE Outcome(reqs'[r].resp) = "PayloadTooLarge"]_vars

C5_Witness ==
    \E r \in Slots :
        /\ reqs[r].pc = "done"
        /\ reqs[r].user = NoUser
        /\ reqs[r].contentLength = JStr(<<"1", "0", "2", "4", "0">>)
        /\ Outcome(reqs[r].resp) = "Unauthorized"
        /\ served > 1

(***************************************************************************)
(* lib/validation.ts: validateCSRFToken, called on its own                 *)
(***************************************************************************)
\* String.prototype.charCodeAt for the letters and digits of the model
CharCode(c) ==
    IF \E i \in 1..10 : Digits[i] = c THEN 47 + (CHOOSE i \in 1..10 : Digits[i] = c)
    ELSE IF \E i \in 1..26 : Uppers[i] = c THEN 64 + (CHOOSE i \in 1..26 : Uppers[i] = c)
    ELSE 96 + (CHOOSE i \in 1..26 : Lowers[i] = c)

RECURSIVE BitXor(_, _)
\* a ^ b on naturals
BitXor(a, b) ==
    IF a = 0 /\ b = 0 THEN 0
    ELSE ((a + b) % 2) + 2 * BitXor(a \div 2, b \div 2)

RECURSIVE BitOr(_, _)
\* a | b on naturals
BitOr(a, b) ==
    IF a = 0 /\ b = 0 THEN 0
    ELSE (IF a % 2 = 1 \/ b % 2 = 1 THEN 1 ELSE 0) + 2 * BitOr(a \div 2, b \div 2)

CSRF_TOKEN_LENGTH == 64

RECURSIVE OrAll(_, _, _)
\* xs[lo] | ... | xs[hi], halving the range
OrAll(xs, lo, hi) ==
    IF lo > hi THEN 0
    ELSE IF lo = hi THEN xs[lo]
    ELSE LET mid == (lo + hi) \div 2
         IN  BitOr(OrAll(xs, lo, mid), OrAll(xs, mid + 1, hi))

\* the comparison leaves the loop at the first position that differs
CompareLoop_EarlyExit(token, storedToken) ==
    LET differ == {i \in 1..Len(token) : token[i] # storedToken[i]}
        last   == IF differ = {} THEN Len(token) ELSE Min(differ)
        xors   == [i \in 1..last |->
                      BitXor(CharCode(token[i]), CharCode(storedToken[i]))]
    IN  [result |-> OrAll(xors, 1, last), visited |-> last]

\* let result = 0; for (let i = 0; i < token.length; i++) result |=
\* token.charCodeAt(i) ^ storedToken.charCodeAt(i), for two strings of one
\* length: the value of result after the loop, and the number of positions the
\* loop visited (one XOR is computed at each)
CompareLoop(token, storedToken) ==
    LET xors == [i \in 1..Len(token) |->
                    BitXor(CharCode(token[i]), CharCode(storedToken[i]))]
    IN  [result |-> OrAll(xors, 1, Len(token)), visited |-> Len(xors)]

\* validateCSRFToken(token, storedToken): what it returns, and how many
\* positions its loop visited
validateCSRFToken(token, storedToken) ==
    IF \/ ~Truthy(token) \/ ~Truthy(storedToken)
       \/ ~IsString(token) \/ ~IsString(storedToken)
       \/ Len(token.s) # CSRF_TOKEN_LENGTH \/ Len(storedToken.s) # CSRF_TOKEN_LENGTH
    THEN [ret |-> FALSE, visited |-> 0]
    ELSE LET loop == CompareLoop(token.s, storedToken.s)
         IN  [ret |-> loop.result = 0, visited |-> loop.visited]

\* at most this many characters of a token differ from the token generated
MaxDiffs == 1

\* generateCSRFToken(): 64 hexadecimal digits
BaseToken == Rep("a", CSRF_TOKEN_LENGTH)

\* positions at which a token of the model may differ: first, middle, last
DiffPositions == {1, 33, 64}

\* the tokens that differ from the generated one at the positions ps: by
\* another digit, or by the case of the digit alone
Altered(ps) ==
    {[i \in 1..CSRF_TOKEN_LENGTH |-> IF i \in ps THEN c ELSE "a"] : c \in {"b", "A"}}

CsrfTokens ==
    UNION {Altered(ps) : ps \in {qs \in SUBSET DiffPositions : Cardinality(qs) <= MaxDiffs}}

\* what a caller may pass: tokens, strings of another length, and no token
CsrfInputs ==
    {JStr(t) : t \in CsrfTokens}
    \cup {JStr(<<>>), JStr(Rep("a", CSRF_TOKEN_LENGTH - 1)), JStr(Rep("a", CSRF_TOKEN_LENGTH + 1)),
          JNull, JUndef}

\* the rate limiter has not been called
LimiterIdle ==
    /\ now = 0
    /\ rlStore = <<>>
    /\ rlSweepDue = CLEANUP_INTERVAL_MS
    /\ rlLast = NoCall
    /\ rlWin = [i \in RLIdentifiers |-> NoWindow]
    /\ RLAuxIdle

\* the sanitizer has not been called
SanIdle ==
    /\ sanIn = JUndef
    /\ sanOut = [done |-> FALSE, v |-> <<>>]

ValidateCsrf ==
    /\ fnIn.fn = "validateCSRFToken"
    /\ ~fnOut.done
    /\ fnOut' = [done |-> TRUE, v |-> validateCSRFToken(fnIn.token, fnIn.storedToken)]
    /\ UNCHANGED <<rlVars, sanVars, fnIn, rlAuxVars, appVars>>

InitCsrf ==
    /\ LimiterIdle
    /\ SanIdle
    /\ AppIdle
    /\ \E token \in CsrfInputs, storedToken \in CsrfInputs :
          fnIn = [fn |-> "validateCSRFToken", token |-> token, storedToken |-> storedToken]
    /\ fnOut = [done |-> FALSE]

NextCsrf == ValidateCsrf

SpecCsrf == InitCsrf /\ [][NextCsrf]_vars

\* C13: validateCSRFToken(a, b) returns true exactly when a and b are both
\* strings of 64 characters and equal character for character (so true for
\* (x, x), false when they differ, false when a length is not 64), and when both
\* have 64 characters its loop visits all 64 positions wherever the first
\* difference is.
C13_CsrfEqualityConstantTime ==
    fnOut.done =>
        LET a == fnIn.token
            b == fnIn.storedToken
            both64 == /\ IsString(a) /\ Len(a.s) = 64
                      /\ IsString(b) /\ Len(b.s) = 64
        IN  /\ fnOut.v.ret <=> (both64 /\ a.s = b.s)
            /\ both64 => fnOut.v.visited = 64

\* two tokens of 64 characters that differ at the first position only were
\* compared: the answer is false after the whole loop
C13_Witness ==
    /\ fnOut.done
    /\ IsString(fnIn.token) /\ Len(fnIn.token.s) = 64
    /\ IsString(fnIn.storedToken) /\ Len(fnIn.storedToken.s) = 64
    /\ fnIn.token.s[1] # fnIn.storedToken.s[1]
    /\ \A i \in 2..64 : fnIn.token.s[i] = fnIn.storedToken.s[i]
    /\ ~fnOut.v.ret
    /\ fnOut.v.visited = 64

(***************************************************************************)
(* lib/validation.ts: eventSchema, called on its own with payloads built   *)
(* from their description: the lengths of the texts, the form of the two   *)
(* timestamps and the time from start to end                               *)
(***************************************************************************)
\* texts are tried at every length within this distance of a limit of the schema
MaxOver == 1

\* lengths around the limit n, and the shortest ones
LengthsAround(n) == {0, 1} \cup {k \in (n - MaxOver)..(n + MaxOver) : k >= 0}

Pad2(k) == IF k < 10 THEN <<"0">> \o NumText(k) ELSE NumText(k)

\* the text YYYY-MM-DDTHH:MM:SSZ of an instant of 2025
Stamp(m, d, hh, mm, ss) ==
    <<"2", "0", "2", "5", "-">> \o Pad2(m) \o <<"-">> \o Pad2(d) \o <<"T">>
    \o Pad2(hh) \o <<":">> \o Pad2(mm) \o <<":">> \o Pad2(ss) \o <<"Z">>

\* the text YYYY-MM-DD of a day of 2025
DayText(m, d) == <<"2", "0", "2", "5", "-">> \o Pad2(m) \o <<"-">> \o Pad2(d)

DAY_SECONDS == 86400

\* pairs of start and end: their texts, whether each is an ISO 8601 datetime in
\* UTC, whether each can be parsed as a date at all, and the seconds from start
\* to end
TimeCases ==
    LET case(st, en, iso, parses, span) ==
            [start |-> st, end |-> en, iso |-> iso, parses |-> parses, span |-> span]
        s0 == Stamp(10, 20, 10, 0, 0)
    IN  { case(s0, Stamp(10, 20, 10, 30, 0), TRUE, TRUE, 1800),
          case(s0, s0, TRUE, TRUE, 0),
          case(s0, Stamp(10, 20, 9, 59, 59), TRUE, TRUE, -1),
          case(s0, Stamp(11, 19, 10, 0, 0), TRUE, TRUE, 30 * DAY_SECONDS),
          case(s0, Stamp(11, 19, 10, 0, 1), TRUE, TRUE, 30 * DAY_SECONDS + 1),
          case(s0, Stamp(11, 20, 10, 0, 0), TRUE, TRUE, 31 * DAY_SECONDS),
          case(DayText(10, 20), Stamp(10, 20, 10, 30, 0), FALSE, TRUE, 37800),
          case(s0, DayText(10, 21), FALSE, TRUE, 50400),
          case(<<"t", "o", "d", "a", "y">>, Stamp(10, 20, 10, 30, 0), FALSE, FALSE, 0),
          case(s0, Stamp(10, 32, 10, 0, 0), FALSE, FALSE, 0) }

\* what a payload may hold under a key with limit n: a text of a length around
\* n, or one of others ("absent": no such key, "null": the value null)
TextShapes(n, others) ==
    {[kind |-> "text", len |-> k] : k \in LengthsAround(n)}
    \cup {[kind |-> o, len |-> 0] : o \in others}

\* the property that a text shape stands for
TextField(key, t) ==
    CASE t.kind = "absent" -> <<>>
      [] t.kind = "null"   -> << <<key, JNull>> >>
      [] OTHER             -> << <<key, JStr(Rep("x", t.len))>> >>

\* the payload that a description stands for
PayloadOf(d) ==
    JObj(TextField(K_title, d.title)
         \o TextField(K_description, d.description)
         \o << <<K_start_time, JStr(d.times.start)>>, <<K_end_time, JStr(d.times.end)>> >>
         \o TextField(K_location, d.location))

PayloadShapes ==
    [title : TextShapes(TITLE_MAX, {"absent"}),
     description : TextShapes(DESCRIPTION_MAX, {"absent", "null"}),
     location : TextShapes(LOCATION_MAX, {"absent"}),
     times : TimeCases]

ValidateEvent ==
    /\ fnIn.fn = "eventSchema"
    /\ ~fnOut.done
    /\ fnOut' = [done |-> TRUE, v |-> eventSchema(PayloadOf(fnIn.shape))]
    /\ UNCHANGED <<rlVars, sanVars, fnIn, rlAuxVars, appVars>>

InitSchema ==
    /\ LimiterIdle
    /\ SanIdle
    /\ AppIdle
    /\ \E d \in PayloadShapes : fnIn = [fn |-> "eventSchema", shape |-> d]
    /\ fnOut = [done |-> FALSE]

NextSchema == ValidateEvent

SpecSchema == InitSchema /\ [][NextSchema]_vars

\* what the design asks of the texts of a payload: a title of 1 to 200
\* characters, a description of at most 2000 and a location of at most 200 when
\* there is one
TextsInRange(d) ==
    /\ d.title.kind = "text" /\ d.title.len >= 1 /\ d.title.len <= 200
    /\ d.description.kind = "text" => d.description.len <= 2000
    /\ d.location.kind = "text" => d.location.len <= 200

FenceInText ==
    { JObj(<<Act(<<"q", "u", "e", "r", "y">>), <<K_message, JStr(m)>> >>) :
          m \in { <<"}">>, FENCE, <<"a", "}", " ">> \o FENCE, <<"}">> \o FENCE \o <<"b">> } }

ExtractObjects == Intents \cup FenceInText

FenceKinds == {"json", "bare", "jsonSpace"}

\* text in a fenced code block: with the json tag, without it, and with spaces
\* in place of the line ends
Wrap(kind, text) ==
    CASE kind = "json" -> FENCE \o LitJson \o <<"\n">> \o text \o <<"\n">> \o FENCE
      [] kind = "bare" -> FENCE \o <<"\n">> \o text \o <<"\n">> \o FENCE
      [] OTHER         -> FENCE \o LitJson \o <<" ">> \o text \o <<" ">> \o FENCE

ExtractBoth ==
    /\ fnIn.fn = "extractJSON"
    /\ ~fnOut.done
    /\ fnOut' = [done |-> TRUE,
                 v |-> [raw     |-> extractJSON(fnIn.ver, fnIn.text),
                        wrapped |-> extractJSON(fnIn.ver, Wrap(fnIn.kind, fnIn.text))]]
    /\ UNCHANGED <<rlVars, sanVars, fnIn, rlAuxVars, appVars>>

InitExtract ==
    /\ LimiterIdle
    /\ SanIdle
    /\ AppIdle
    /\ \E ver \in {"enhanced", "fixed"}, kind \in FenceKinds, obj \in ExtractObjects :
          fnIn = [fn |-> "extractJSON", ver |-> ver, kind |-> kind, text |-> JsonText(obj)]
    /\ fnOut = [done |-> FALSE]

NextExtract == ExtractBoth

SpecExtract == InitExtract /\ [][NextExtract]_vars

\* C15: for every JSON object text J, extractJSON of J in a fenced code block
\* (with or without the json tag) returns the same structure as extractJSON of
\* J alone.
C15_FencedSameAsRaw ==
    fnIn.fn = "extractJSON" /\ fnOut.done => fnOut.v.wrapped = fnOut.v.raw

\* the same for the FIXED version alone
C15_FixedFencedSameAsRaw ==
    fnIn.fn = "extractJSON" /\ fnOut.done /\ fnIn.ver = "fixed"
        => fnOut.v.wrapped = fnOut.v.raw

\* the enhanced version on texts that hold no fence
C15_EnhancedNoInnerFence ==
    /\ fnIn.fn = "extractJSON" /\ fnOut.done /\ fnIn.ver = "enhanced"
    /\ \A i \in 1..Len(fnIn.text) : fnIn.text[i] # GRAVE
    => fnOut.v.wrapped = fnOut.v.raw /\ fnOut.v.raw.ok

(***************************************************************************)
(* The rate limiter under one configuration: every call of check passes    *)
(* the same (limit, windowMs), and the instants of the allowed calls of    *)
(* each identifier are kept for as long as one window back from the latest *)
(***************************************************************************)
\* the instants in hist that lie within windowMs of instant t, and t itself
Granted(hist, t, windowMs) ==
    Append(SelectSeq(hist, LAMBDA g : g >= t - windowMs), t)

\* check with the denial one call late: count >= config.limit + 1
BurstCheck_OneMore(identifier) ==
    LET config == fnIn.config
        c == Check(rlStore, now, identifier, [config EXCEPT !.limit = @ + 1])
    IN  /\ fnIn.fn = "check"
        /\ Len(rlHist[identifier]) <= 2 * MaxLimit
        /\ rlStore' = c.store
        /\ rlWin' = [rlWin EXCEPT ![identifier] = WinAfter(@, now, config, c.result)]
        /\ rlHist' = [rlHist EXCEPT ![identifier] =
                          IF c.result.allowed THEN Granted(@, now, config.windowMs) ELSE @]
        /\ fnOut' = [done |-> TRUE, v |-> c.result]
        /\ UNCHANGED <<now, rlSweepDue, rlLast, sanVars, fnIn, rlTasks, rlRunning, appVars>>

BurstCheck(identifier) ==
    LET config == fnIn.config
        c == Check(rlStore, now, identifier, config)
    IN  /\ fnIn.fn = "check"
        /\ Len(rlHist[identifier]) <= 2 * MaxLimit
        /\ rlStore' = c.store
        /\ rlWin' = [rlWin EXCEPT ![identifier] = WinAfter(@, now, config, c.result)]
        /\ rlHist' = [rlHist EXCEPT ![identifier] =
                          IF c.result.allowed THEN Granted(@, now, config.windowMs) ELSE @]
        /\ fnOut' = [done |-> TRUE, v |-> c.result]
        /\ UNCHANGED <<now, rlSweepDue, rlLast, sanVars, fnIn, rlTasks, rlRunning, appVars>>

InitBurst ==
    /\ LimiterIdle
    /\ SanIdle
    /\ AppIdle
    /\ \E config \in RLConfigs : fnIn = [fn |-> "check", config |-> config]
    /\ fnOut = [done |-> FALSE]

NextBurst ==
    \/ \E identifier \in RLIdentifiers : BurstCheck(identifier)
    \/ CleanupTimer
    \/ Tick

SpecBurst == InitBurst /\ [][NextBurst]_vars

\* C16: for one identifier and a limit of at least 1, the calls of check that
\* return allowed=true within any interval no longer than one window are at
\* most 2 x limit (rlHist holds the allowed calls of the interval of one window
\* that ends at the latest of them), and those within one window are at most
\* limit.
C16_BurstAtMostTwiceLimit ==
    fnIn.fn = "check" =>
        \A i \in RLIdentifiers :
            /\ Len(rlHist[i]) <= 2 * fnIn.config.limit
            /\ \A k \in 1..Len(rlHist[i]) : rlHist[i][Len(rlHist[i])] - rlHist[i][k] <= fnIn.config.windowMs
            /\ rlWin[i].grants <= fnIn.config.limit

\* a burst across the boundary of two windows: with a limit of 2, three calls
\* were allowed within one window's length, the first of them in the window
\* before the current one
C16_Witness ==
    /\ fnIn.fn = "check"
    /\ fnIn.config.limit = 2
    /\ \E i \in RLIdentifiers :
          /\ Len(rlHist[i]) = 3
          /\ rlHist[i][1] < rlWin[i].openedAt
          /\ rlWin[i].grants = 2

(***************************************************************************)
(* Concurrent requests at the rate limiter.  check and cleanup are taken   *)
(* statement by statement; the event loop runs one callback at a time, and *)
(* a callback keeps the call stack until it awaits or returns.  A request  *)
(* is suspended at await supabase.auth.getUser() before its check and      *)
(* yields at await request.json() (or returns 429) after it.               *)
(***************************************************************************)
\* the event loop may run a step of callback c: a callback that waits starts
\* only on an empty call stack, one that has started goes on while it holds it
Runnable_Preemptive(running, c, waiting) == TRUE

Runnable(running, c, waiting) ==
    IF waiting THEN running = 0 ELSE running = c

\* positions of a call between const record = this.store.get(identifier) and
\* the write or return of its branch
InCheck == {"test", "open", "deny", "increment"}

\* the object a call's record refers to: the stored one, or, once another
\* callback has replaced or deleted the entry, the object it still holds
Deref(store, task) ==
    IF task.record.present /\ ~task.detached /\ task.identifier \in DOMAIN store
    THEN [present |-> TRUE, count |-> store[task.identifier].count,
          resetTime |-> store[task.identifier].resetTime]
    ELSE task.record

\* the calls after the entry of identifier has been replaced or deleted by a
\* callback other than call c: those that hold the old object keep it
Detach(calls, store, identifier, c) ==
    [d \in CallIds |->
        IF /\ d # c
           /\ calls[d].pc \in InCheck
           /\ calls[d].identifier = identifier
           /\ calls[d].record.present
           /\ ~calls[d].detached
        THEN [calls[d] EXCEPT !.record = Deref(store, calls[d]), !.detached = TRUE]
        ELSE calls[d]]

\* the history of identifier's window after a call that read the clock at
\* instant t: the window is the one of the first allowed call, or of the first
\* allowed call after the window before it had elapsed
WinByTime(win, t, config, result) ==
    IF ~result.allowed THEN win
    ELSE IF win.grants = 0 \/ t > win.openedAt + config.windowMs
         THEN [openedAt |-> t, config |-> config, grants |-> 1, uniform |-> TRUE]
         ELSE [win EXCEPT !.grants = win.grants + 1]

\* a request for identifier arrives and waits for getUser
Arrive(c, identifier) ==
    /\ fnIn.fn = "POST"
    /\ rlTasks.calls[c].pc = "idle"
    /\ \A d \in CallIds : d < c => rlTasks.calls[d].pc # "idle"
    /\ rlTasks' = [rlTasks EXCEPT !.calls[c] =
                      [NoTask EXCEPT !.pc = "awaiting", !.identifier = identifier,
                                     !.config = fnIn.config]]
    /\ UNCHANGED <<rlVars, sanVars, fnVars, rlHist, rlRunning, appVars>>

\* const now = Date.now(); const record = this.store.get(identifier)
ReadRecord(c) ==
    LET task == rlTasks.calls[c]
        i    == task.identifier
    IN  /\ task.pc = "awaiting"
        /\ Runnable(rlRunning, c, TRUE)
        /\ rlRunning' = c
        /\ rlTasks' = [rlTasks EXCEPT !.calls[c] =
                          [task EXCEPT !.pc = "test", !.at = now,
                               !.record = IF i \in DOMAIN rlStore
                                          THEN [present |-> TRUE, count |-> rlStore[i].count,
                                                resetTime |-> rlStore[i].resetTime]
                                          ELSE NoTask.record]]
        /\ UNCHANGED <<rlVars, sanVars, fnVars, rlHist, appVars>>

\* if (!record || record.resetTime < now) ... if (record.count >= config.limit)
TestRecord(c) ==
    LET task   == rlTasks.calls[c]
        record == Deref(rlStore, task)
    IN  /\ task.pc = "test"
        /\ Runnable(rlRunning, c, FALSE)
        /\ rlTasks' = [rlTasks EXCEPT !.calls[c].pc =
                          IF ~record.present \/ record.resetTime < task.at THEN "open"
                          ELSE IF record.count >= task.config.limit THEN "deny"
                          ELSE "increment"]
        /\ UNCHANGED <<rlVars, sanVars, fnVars, rlHist, rlRunning, appVars>>

\* the branch the tests chose: this.store.set(...), the denial, or record.count++
WriteRecord(c) ==
    LET task   == rlTasks.calls[c]
        i      == task.identifier
        config == task.config
        record == Deref(rlStore, task)
        result ==
            CASE task.pc = "open" ->
                     RLResult(TRUE, config.limit - 1, task.at + config.windowMs, FALSE, 0)
              [] task.pc = "deny" ->
                     RLResult(FALSE, 0, record.resetTime, TRUE,
                              CeilDiv(record.resetTime - task.at, 1000))
              [] OTHER ->
                     RLResult(TRUE, config.limit - (record.count + 1), record.resetTime, FALSE, 0)
        bumped == [present |-> TRUE, count |-> record.count + 1, resetTime |-> record.resetTime]
        held   == task.record.present /\ ~task.detached /\ i \in DOMAIN rlStore
        calls1 == IF task.pc = "open" THEN Detach(rlTasks.calls, rlStore, i, c)
                  ELSE rlTasks.calls
    IN  /\ task.pc \in {"open", "deny", "increment"}
        /\ Runnable(rlRunning, c, FALSE)
        /\ rlStore' =
              CASE task.pc = "open" ->
                       MapSet(rlStore, i, [count |-> 1, resetTime |-> task.at + config.windowMs])
                [] task.pc = "increment" /\ held ->
                       MapSet(rlStore, i, [count |-> record.count + 1,
                                           resetTime |-> record.resetTime])
                [] OTHER -> rlStore
        /\ rlTasks' = [rlTasks EXCEPT !.calls =
                          [calls1 EXCEPT ![c] =
                              [task EXCEPT !.pc = "returned", !.result = result,
                                           !.record = IF task.pc = "increment" /\ ~held
                                                      THEN bumped ELSE @]]]
        /\ rlWin' = [rlWin EXCEPT ![i] = WinByTime(@, task.at, config, result)]
        /\ UNCHANGED <<now, rlSweepDue, rlLast, sanVars, fnVars, rlHist, rlRunning, appVars>>

\* the handler goes on to await request.json(), or returns the 429 response
Yield(c) ==
    /\ rlTasks.calls[c].pc = "returned"
    /\ Runnable(rlRunning, c, FALSE)
    /\ rlRunning' = 0
    /\ rlTasks' = [rlTasks EXCEPT !.calls[c] = [NoTask EXCEPT !.pc = "done"]]
    /\ UNCHANGED <<rlVars, sanVars, fnVars, rlHist, appVars>>

\* the setInterval callback starts: const now = Date.now() and the iteration
SweepStart ==
    /\ fnIn.fn = "POST"
    /\ rlTasks.sweep.pc = "idle"
    /\ now >= rlSweepDue
    /\ rlSweepDue = CLEANUP_INTERVAL_MS
    /\ Runnable(rlRunning, SweepTask, TRUE)
    /\ rlRunning' = SweepTask
    /\ rlTasks' = [rlTasks EXCEPT !.sweep = [pc |-> "loop", at |-> now, todo |-> DOMAIN rlStore]]
    /\ UNCHANGED <<rlVars, sanVars, fnVars, rlHist, appVars>>

\* one entry of the iteration: if (value.resetTime < now) this.store.delete(key)
SweepVisit ==
    LET sweep == rlTasks.sweep
    IN  /\ sweep.pc = "loop"
        /\ Runnable(rlRunning, SweepTask, FALSE)
        /\ \E key \in sweep.todo :
              LET expired == key \in DOMAIN rlStore /\ rlStore[key].resetTime < sweep.at
              IN  /\ rlStore' = IF expired THEN MapDeleteAll(rlStore, {key}) ELSE rlStore
                  /\ rlTasks' = [calls |-> IF expired
                                           THEN Detach(rlTasks.calls, rlStore, key, SweepTask)
                                           ELSE rlTasks.calls,
                                 sweep |-> [sweep EXCEPT !.todo = @ \ {key}]]
        /\ UNCHANGED <<now, rlSweepDue, rlLast, rlWin, sanVars, fnVars, rlHist, rlRunning, appVars>>

\* the iteration is over and the callback returns
SweepEnd ==
    /\ rlTasks.sweep.pc = "loop"
    /\ rlTasks.sweep.todo = {}
    /\ Runnable(rlRunning, SweepTask, FALSE)
    /\ rlRunning' = 0
    /\ rlTasks' = [rlTasks EXCEPT !.sweep = NoSweep]
    /\ rlSweepDue' = rlSweepDue + CLEANUP_INTERVAL_MS
    /\ UNCHANGED <<now, rlStore, rlLast, rlWin, sanVars, fnVars, rlHist, appVars>>

\* time passes, at any point of any callback: by one of TickSteps while within
\* MaxElapsed of the process start, or up to the first instant the cleanup
\* timer is due
ConcTick ==
    /\ fnIn.fn = "POST"
    /\ \E t \in {now + d : d \in TickSteps} \cup {rlSweepDue} :
          /\ t > now
          /\ t <= MaxElapsed \/ t = CLEANUP_INTERVAL_MS
          /\ now' = t
    /\ UNCHANGED <<rlStore, rlSweepDue, rlLast, rlWin, sanVars, fnVars, rlAuxVars, appVars>>

InitConc ==
    /\ LimiterIdle
    /\ SanIdle
    /\ AppIdle
    /\ \E config \in RLConfigs : fnIn = [fn |-> "POST", config |-> config]
    /\ fnOut = [done |-> FALSE]

NextConc ==
    \/ \E c \in CallIds, identifier \in RLIdentifiers : Arrive(c, identifier)
    \/ \E c \in CallIds : ReadRecord(c) \/ TestRecord(c) \/ WriteRecord(c) \/ Yield(c)
    \/ SweepStart
    \/ SweepVisit
    \/ SweepEnd
    \/ ConcTick

SpecConc == InitConc /\ [][NextConc]_vars

\* C17: under any interleaving of concurrent requests, the read, compare and
\* increment of an identifier's record are atomic: no two calls for the same
\* identifier are both between their read and their write, no call works on a
\* record that another callback has replaced or deleted, the allowed calls of
\* one window never exceed the limit, and the sweep is never in progress while
\* a call is between its read and its write.
C17_CheckAtomic ==
    fnIn.fn = "POST" =>
        /\ \A c, d \in CallIds :
              /\ c # d
              /\ rlTasks.calls[c].pc \in InCheck
              /\ rlTasks.calls[d].pc \in InCheck
              => rlTasks.calls[c].identifier # rlTasks.calls[d].identifier
        /\ \A c \in CallIds : ~rlTasks.calls[c].detached
        /\ \A i \in RLIdentifiers : rlWin[i].grants <= fnIn.config.limit
        /\ rlTasks.sweep.pc = "loop" => \A c \in CallIds : rlTasks.calls[c].pc \notin InCheck

\* three requests of one identifier were in flight together; with a limit of 1
\* the first to run was allowed, the second read the clock at the same instant
\* and was denied, and the third still waits
C17_Witness ==
    /\ fnIn.fn = "POST"
    /\ fnIn.config.limit = 1
    /\ \E c, d, e \in CallIds :
          LET i == rlTasks.calls[d].identifier
          IN  /\ rlTasks.calls[c].pc = "done"
              /\ rlTasks.calls[d].pc = "returned"
              /\ ~rlTasks.calls[d].result.allowed
              /\ rlWin[i].grants = 1
              /\ rlWin[i].openedAt = rlTasks.calls[d].at
              /\ rlTasks.calls[e].pc = "awaiting"
              /\ rlTasks.calls[e].identifier = i

(***************************************************************************)
(* checkRateLimit under the four rate classes, on the one RateLimiter of   *)
(* the module                                                              *)
(***************************************************************************)
MaxClassCount == 6

RateClasses == DOMAIN RATE_LIMITS

\* checkRateLimit(identifier, type); what is kept of the call is the store
\* before and after it
ClassCheck(identifier, type) ==
    LET c == checkRateLimit(rlStore, now, identifier, type)
    IN  /\ fnIn.fn = "checkRateLimit"
        /\ identifier \in DOMAIN rlStore => rlStore[identifier].count < MaxClassCount
        /\ rlStore' = c.store
        /\ fnOut' = [done |-> TRUE,
                     v |-> [identifier |-> identifier, type |-> type, at |-> now,
                            before |-> rlStore, after |-> c.store, result |-> c.result]]
        /\ UNCHANGED <<now, rlSweepDue, rlLast, rlWin, sanVars, fnIn, rlAuxVars, appVars>>

\* time passes by a little more than the window of one of the classes, up to
\* the end of the longest window
ClassTick ==
    /\ fnIn.fn = "checkRateLimit"
    /\ \E type \in RateClasses :
          /\ now' = now + RATE_LIMITS[type].windowMs + 1
          /\ now' <= RATE_LIMITS.AUTH.windowMs + 1
    /\ UNCHANGED <<rlStore, rlSweepDue, rlLast, rlWin, sanVars, fnVars, rlAuxVars, appVars>>

InitClasses ==
    /\ LimiterIdle
    /\ SanIdle
    /\ AppIdle
    /\ fnIn = [fn |-> "checkRateLimit"]
    /\ fnOut = [done |-> FALSE]

NextClasses ==
    \/ \E identifier \in RLIdentifiers, type \in RateClasses : ClassCheck(identifier, type)
    \/ ClassTick

SpecClasses == InitClasses /\ [][NextClasses]_vars

\* C18: a check made under one rate class changes neither the stored count nor
\* the allowed/denied outcome of a check under a different class, also for the
\* same identifier: what a check of any other class would store and return for
\* that identifier is the same after the call as before it.
C18_ClassesIsolated ==
    fnIn.fn = "checkRateLimit" /\ fnOut.done =>
        \A other \in RateClasses \ {fnOut.v.type} :
            LET was   == checkRateLimit(fnOut.v.before, fnOut.v.at, fnOut.v.identifier, other)
                isNow == checkRateLimit(fnOut.v.after, fnOut.v.at, fnOut.v.identifier, other)
            IN  /\ isNow.result.allowed = was.result.allowed
                /\ isNow.store[fnOut.v.identifier].count = was.store[fnOut.v.identifier].count

\* the outcome alone
C18_OutcomeIsolated ==
    fnIn.fn = "checkRateLimit" /\ fnOut.done =>
        \A other \in RateClasses \ {fnOut.v.type} :
            checkRateLimit(fnOut.v.after, fnOut.v.at, fnOut.v.identifier, other).result.allowed
            = checkRateLimit(fnOut.v.before, fnOut.v.at, fnOut.v.identifier, other).result.allowed

\* checks of one class leave the other identifiers alone
C18_IdentifiersIsolated ==
    fnIn.fn = "checkRateLimit" /\ fnOut.done =>
        \A i \in RLIdentifiers \ {fnOut.v.identifier} :
            /\ i \in DOMAIN fnOut.v.after <=> i \in DOMAIN fnOut.v.before
            /\ i \in DOMAIN fnOut.v.after => fnOut.v.after[i] = fnOut.v.before[i]

(***************************************************************************)
(* extractJSON on one text: completions of every shape, and texts that     *)
(* hold braces after or inside the object                                  *)
(***************************************************************************)
QueryText == <<"{", QUOTE, "a", "c", "t", "i", "o", "n", QUOTE, ":", QUOTE, "q", "u", "e", "r", "y", QUOTE, "}">>

NoJsonHere == <<"n", "o", " ", "j", "s", "o", "n", " ", "h", "e", "r", "e">>

StrategyTexts ==
    CompletionTexts
    \cup {Wrap(kind, JsonText(obj)) : kind \in FenceKinds, obj \in FenceInText}
    \cup { NoJsonHere,
           <<"S", "u", "r", "e", ":", " ">> \o QueryText \o <<" ", "a", "n", "d", " ", "{", "m", "o", "r", "e", "}">>,
           QueryText \o <<" ", "{", "}">>,
           FENCE \o LitJson \o <<" ", "{", "b", "a", "d", "}", " ">> \o FENCE \o <<" ">> \o QueryText,
           <<"{", "b", "a", "d", "}", " ">> \o QueryText,
           FENCE \o QueryText \o FENCE,
           <<"7">>, <<QUOTE, "x", QUOTE>> }

ExtractOne ==
    /\ fnIn.fn = "extractJSON(text)"
    /\ ~fnOut.done
    /\ fnOut' = [done |-> TRUE, v |-> extractJSON(fnIn.ver, fnIn.text)]
    /\ UNCHANGED <<rlVars, sanVars, fnIn, rlAuxVars, appVars>>

InitStrategies ==
    /\ LimiterIdle
    /\ SanIdle
    /\ AppIdle
    /\ \E ver \in {"enhanced", "fixed"}, text \in StrategyTexts :
          fnIn = [fn |-> "extractJSON(text)", ver |-> ver, text |-> text]
    /\ fnOut = [done |-> FALSE]

NextStrategies == ExtractOne

SpecStrategies == InitStrategies /\ [][NextStrategies]_vars

\* the first balanced brace-delimited part of text: from its first '{' to the
\* '}' that closes it (the empty text when there is none)
FirstBalanced(text) ==
    LET opens == {i \in 1..Len(text) : text[i] = "{"}
        depth(a, i) == Cardinality({k \in a..i : text[k] = "{"})
                       - Cardinality({k \in a..i : text[k] = "}"})
    IN  IF opens = {} THEN <<>>
        ELSE LET a    == Min(opens)
                 ends == {i \in a..Len(text) : depth(a, i) = 0}
             IN  IF ends = {} THEN <<>> ELSE SubSeq(text, a, Min(ends))

\* text without the delimiters of fenced code blocks
Unfenced(text) ==
    RemoveWithSpace(RemoveWithSpace(Trim(text), FENCE \o LitJson, 1), FENCE, 1)

\* C23: extractJSON returns the result of the first of three strategies that
\* parses: the whole text, the text with the fences stripped, the first
\* balanced brace-delimited part; a later one is tried whenever the earlier
\* ones fail, so an object followed by text with braces yields that object;
\* extraction fails only when all three fail.
C23_FirstStrategyThatParses ==
    fnIn.fn = "extractJSON(text)" /\ fnOut.done =>
        LET direct   == JsonParse(fnIn.text)
            stripped == JsonParse(Unfenced(fnIn.text))
            balanced == JsonParse(FirstBalanced(fnIn.text))
        IN  fnOut.v = IF direct.ok THEN direct
                      ELSE IF stripped.ok THEN stripped
                      ELSE IF balanced.ok THEN balanced
                      ELSE [ok |-> FALSE, v |-> JUndef]

\* what does hold in both versions: a text that parses as an object on its own
\* gives that object, and 'no json here' fails
C23_DirectAndNone ==
    fnIn.fn = "extractJSON(text)" /\ fnOut.done =>
        /\ (JsonParse(fnIn.text).ok /\ JsonParse(fnIn.text).v.ty = "object"
                /\ \A i \in 1..Len(fnIn.text) : fnIn.text[i] # GRAVE)
              => fnOut.v = JsonParse(fnIn.text)
        /\ fnIn.text = NoJsonHere => ~fnOut.v.ok

(***************************************************************************)
(* validateAIPrompt on its own                                             *)
(***************************************************************************)
PromptCores ==
    { <<"h", "i">>,
      <<"s", "y", "s", "t", "e", "m", ":", " ", "x">>,
      <<"S", "y", "S", "t", "E", "m", ":">>,
      <<"I", "G", "N", "O", "R", "E", " ", "P", "R", "E", "V", "I", "O", "U", "S">>,
      <<"d", "i", "s", "r", "e", "g", "a", "r", "d">>,
      <<"<", "s", "c", "r", "i", "p", "t", ">">>,
      <<"j", "a", "v", "a", "s", "c", "r", "i", "p", "t", ":", "a">>,
      <<"<", "b", ">", "x", "<", "/", "b", ">">>,
      <<"o", "n", "c", "l", "i", "c", "k", "=", "a">>,
      <<"d", "a", "t", "a", ":", "x">>,
      <<"s", "y", "s", "<", "t", "e", "m", ":">>,
      <<"<", ">">>,
      <<"d", "i", "s", ">", "r", "e", "g", "a", "r", "d">>,
      <<"j", "a", "v", "a", "d", "a", "t", "a", ":", "s", "c", "r", "i", "p", "t", ":">>,
      <<"i", "g", "n", "o", "r", "e", " ", " ", "p", "r", "e", "v", "i", "o", "u", "s">> }

\* core padded with 'a' to n characters (core alone when it is longer)
Padded(core, n) == core \o Rep("a", Max({n - Len(core), 0}))

PromptInputs ==
    {JStr(Padded(core, n)) : core \in PromptCores, n \in LengthsAround(PROMPT_MAX)}
    \cup {JStr(<<" ", "\n">> \o Padded(core, n) \o <<"\t", " ">>) :
              core \in PromptCores, n \in LengthsAround(PROMPT_MAX)}
    \cup {JStr(<<>>), JStr(<<" ", " ">>), JStr(Rep(" ", PROMPT_MAX + 1)),
          JUndef, JNull, JNum(7), JObj(<<>>), JArr(<<JStr(<<"h", "i">>)>>)}

ValidatePrompt ==
    /\ fnIn.fn = "validateAIPrompt"
    /\ ~fnOut.done
    /\ fnOut' = [done |-> TRUE, v |-> validateAIPrompt(fnIn.prompt)]
    /\ UNCHANGED <<rlVars, sanVars, fnIn, rlAuxVars, appVars>>

InitPrompt ==
    /\ LimiterIdle
    /\ SanIdle
    /\ AppIdle
    /\ \E prompt \in PromptInputs : fnIn = [fn |-> "validateAIPrompt", prompt |-> prompt]
    /\ fnOut = [done |-> FALSE]

NextPrompt == ValidatePrompt

SpecPrompt == InitPrompt /\ [][NextPrompt]_vars

\* the denylist signatures, in any case
Denied(str) ==
    \/ TestLit(str, <<"s", "y", "s", "t", "e", "m", ":">>)
    \/ TestLit(str, <<"i", "g", "n", "o", "r", "e", " ", "p", "r", "e", "v", "i", "o", "u", "s">>)
    \/ TestLit(str, <<"d", "i", "s", "r", "e", "g", "a", "r", "d">>)
    \/ TestLit(str, <<"<", "s", "c", "r", "i", "p", "t">>)
    \/ TestLit(str, <<"j", "a", "v", "a", "s", "c", "r", "i", "p", "t", ":">>)

\* C24: validateAIPrompt checks the type, then emptiness after trimming, then
\* a length over 500, then the denylist, and reports the first rule broken (an
\* over-long prompt that holds 'system:' is too long); 500 characters after
\* trimming are not too long; on pass it returns sanitizeInput of the trimmed
\* prompt.
C24_PromptChecksInOrder ==
    fnIn.fn = "validateAIPrompt" /\ fnOut.done =>
        LET prompt  == fnIn.prompt
            trimmed == Trim(prompt.s)
            out     == fnOut.v
        IN  IF ~IsString(prompt)
            THEN ~out.valid /\ out.error = "Invalid prompt type"
            ELSE IF Len(trimmed) = 0
            THEN ~out.valid /\ out.error = "Prompt cannot be empty"
            ELSE IF Len(trimmed) > 500
            THEN ~out.valid /\ out.error = "Prompt too long (max 500 characters)"
            ELSE IF Denied(trimmed)
            THEN ~out.valid /\ out.error = "Invalid prompt content"
            ELSE out.valid /\ out.sanitized = sanitizeInput(JStr(trimmed))

\* a prompt of more than 500 characters that holds 'system:' was reported as
\* too long
C24_Witness ==
    /\ fnIn.fn = "validateAIPrompt"
    /\ fnOut.done
    /\ IsString(fnIn.prompt)
    /\ Len(Trim(fnIn.prompt.s)) = 501
    /\ Denied(Trim(fnIn.prompt.s))
    /\ fnOut.v.error = "Prompt too long (max 500 characters)"

\* C26: the prompt forwarded to the model, the sanitized value of a valid
\* prompt, is not empty and matches none of the denylist signatures.
C26_ForwardedPromptPassesValidator ==
    fnIn.fn = "validateAIPrompt" /\ fnOut.done /\ fnOut.v.valid =>
        /\ Len(fnOut.v.sanitized) > 0
        /\ ~Denied(fnOut.v.sanitized)

\* C25 as stated: every stored record is open (its reset instant is in the
\* future and its count is strictly less than the limit) or expired (its reset
\* instant is in the past).
C25_RecordOpenOrExpired ==
    fnIn.fn = "check" =>
        \A i \in DOMAIN rlStore :
            \/ rlStore[i].resetTime > now /\ rlStore[i].count < fnIn.config.limit
            \/ rlStore[i].resetTime < now

\* C25, amended: every stored record has a count from 1 to the limit (a record
\* that has reached the limit stays stored until its window has elapsed) and a
\* reset instant at most one window ahead; it is current while the reset
\* instant is not in the past (the instant itself included) and expired after.
C25_RecordWithinLimit ==
    fnIn.fn = "check" =>
        \A i \in DOMAIN rlStore :
            /\ rlStore[i].count >= 1
            /\ rlStore[i].count <= fnIn.config.limit
            /\ rlStore[i].resetTime <= now + fnIn.config.windowMs

\* a record that has reached a limit of 2 and whose window has not elapsed
C25_Witness ==
    /\ fnIn.fn = "check"
    /\ fnIn.config.limit = 2
    /\ \E i \in DOMAIN rlStore :
          /\ rlStore[i].count = 2
          /\ rlStore[i].resetTime > now

\* C27: a check that returns allowed=false leaves the whole store, and so the
\* count and the reset instant of the identifier's record, as it was; and every
\* check leaves the records of all other identifiers as they were (present with
\* the same count and reset instant, or absent).
C27_DeniedCheckWritesNothing ==
    [][\A identifier \in RLIdentifiers :
          BurstCheck(identifier) =>
             /\ ~fnOut'.v.allowed =>
                   /\ rlStore' = rlStore
                   /\ identifier \in DOMAIN rlStore
                   /\ fnOut'.v.resetTime = rlStore[identifier].resetTime
             /\ \A other \in RLIdentifiers \ {identifier} :
                   /\ other \in DOMAIN rlStore' <=> other \in DOMAIN rlStore
                   /\ other \in DOMAIN rlStore => rlStore'[other] = rlStore[other]]_vars

\* a call has been denied after its window began, while the other identifier
\* holds a record with a different reset instant
C27_Witness ==
    /\ fnIn.fn = "check"
    /\ fnOut.done
    /\ ~fnOut.v.allowed
    /\ fnOut.v.resetTime < now + fnIn.config.windowMs
    /\ \E other \in DOMAIN rlStore : rlStore[other].resetTime # fnOut.v.resetTime

(***************************************************************************)
(* The limiter beside a limiter whose timer never fires.  Every call of    *)
(* check is made on both at the same instant: rlStore is the store the     *)
(* timer sweeps, fnOut.unswept the store of the same calls without any     *)
(* sweep, fnOut.v and fnOut.expected the two results of the latest call.   *)
(***************************************************************************)
SweptCheck(identifier) ==
    LET config == fnIn.config
        c == Check(rlStore, now, identifier, config)
        u == Check(fnOut.unswept, now, identifier, config)
    IN  /\ fnIn.fn = "check, swept and unswept"
        /\ Len(rlHist[identifier]) <= 2 * MaxLimit
        /\ rlStore' = c.store
        /\ rlWin' = [rlWin EXCEPT ![identifier] = WinAfter(@, now, config, c.result)]
        /\ rlHist' = [rlHist EXCEPT ![identifier] =
                          IF c.result.allowed THEN Granted(@, now, config.windowMs) ELSE @]
        /\ fnOut' = [done |-> TRUE, v |-> c.result,
                     unswept |-> u.store, expected |-> u.result]
        /\ UNCHANGED <<now, rlSweepDue, rlLast, sanVars, fnIn, rlTasks, rlRunning, appVars>>

InitSwept ==
    /\ LimiterIdle
    /\ SanIdle
    /\ AppIdle
    /\ \E config \in RLConfigs : fnIn = [fn |-> "check, swept and unswept", config |-> config]
    /\ fnOut = [done |-> FALSE, unswept |-> <<>>]

NextSwept ==
    \/ \E identifier \in RLIdentifiers : SweptCheck(identifier)
    \/ CleanupTimer
    \/ Tick

SpecSwept == InitSwept /\ [][NextSwept]_vars

\* C28: wherever the sweep runs between the calls of check, every call returns
\* the result (allowed, remaining, resetTime, retryAfter) that the same calls
\* return with no sweep at all; and a run of the sweep removes only records
\* whose reset instant is in the past, leaving the others as they were.
C28_SweepTransparent ==
    [][/\ fnOut'.done => fnOut'.v = fnOut'.expected
       /\ rlStore' # rlStore /\ fnOut' = fnOut =>
             /\ \A k \in DOMAIN rlStore \ DOMAIN rlStore' : rlStore[k].resetTime < now
             /\ \A k \in DOMAIN rlStore' : k \in DOMAIN rlStore /\ rlStore'[k] = rlStore[k]]_vars

\* the sweep has removed a record that the unswept limiter still holds, and a
\* call of check made after that sweep has returned
C28_Witness ==
    /\ fnIn.fn = "check, swept and unswept"
    /\ fnOut.done
    /\ rlSweepDue > CLEANUP_INTERVAL_MS
    /\ fnOut.v.resetTime > CLEANUP_INTERVAL_MS
    /\ \E i \in DOMAIN fnOut.unswept : i \notin DOMAIN rlStore

(***************************************************************************)
(* Two requests in flight at once.  Each await of the handler yields to    *)
(* the event loop, so the steps of two requests interleave in any order;   *)
(* the model answers with a create, or with an update or a delete of the   *)
(* first event created.                                                    *)
(***************************************************************************)
RaceSlots == {1, 2}

MaxRaceRequests == 3

RaceIntents ==
    { JObj(<<Act(<<"c", "r", "e", "a", "t", "e">>), <<K_event, Ev(Title1, T_start, T_end)>> >>),
      JObj(<<Act(<<"u", "p", "d", "a", "t", "e">>), <<K_event_id, JStr(NewId(1))>>,
             <<K_updates, JObj(<< <<K_title, JStr(Title2)>> >>)>> >>),
      JObj(<<Act(<<"d", "e", "l", "e", "t", "e">>), <<K_event_id, JStr(NewId(1))>> >>) }

RaceOutcomes(ver) ==
    {[kind |-> "content", message |-> "", ex |-> extractJSON(ver, Plain(v))] : v \in RaceIntents}

InitRace ==
    /\ LimiterIdle
    /\ SanIdle
    /\ FnIdle
    /\ version \in {"enhanced", "fixed"}
    /\ nodeEnv = "production"
    /\ events = {}
    /\ nextId = 0
    /\ reqs = [r \in RaceSlots |-> IdleRequest]
    /\ served = 0

NextRace ==
    \/ \E r \in RaceSlots : Start(r, MaxRaceRequests)
    \/ \E r \in RaceSlots : AuthStep(r)
    \/ \E r \in RaceSlots : BodyStep(r)
    \/ \E r \in RaceSlots : FetchStep(r)
    \/ \E r \in RaceSlots : ModelStep(r, RaceOutcomes(version))
    \/ \E r \in RaceSlots : InsertStep(r)
    \/ \E r \in RaceSlots : UpdateCheckStep(r)
    \/ \E r \in RaceSlots : UpdateWriteStep(r)
    \/ \E r \in RaceSlots : DeleteCheckStep(r)
    \/ \E r \in RaceSlots : DeleteWriteStep(r)

SpecRace == InitRace /\ [][NextRace]_vars

\* C29: of two requests of the owner that carry DELETE intents for the same
\* event id and run concurrently, at most one ends with success (the other with
\* NotFound), however their existence checks and deletes interleave; and an
\* UPDATE whose target is deleted between its existence check and its write
\* does not report success and does not recreate the record.
C29_RacingWritesOneSuccess ==
    /\ \A r \in RaceSlots : \A q \in RaceSlots \ {r} :
          ~ /\ reqs[r].pc = "done" /\ reqs[q].pc = "done"
            /\ reqs[r].user = reqs[q].user
            /\ reqs[r].eventId = reqs[q].eventId
            /\ reqs[r].resp.success /\ reqs[r].resp.action = "delete"
            /\ reqs[q].resp.success /\ reqs[q].resp.action = "delete"
    /\ \A r \in RaceSlots :
          (reqs[r].pc = "done" /\ reqs[r].resp.success /\ reqs[r].resp.action = "update") =>
              reqs[r].muts = <<"update">>

\* the part of C29 about UPDATE: the write of an UPDATE whose target was deleted
\* after its existence check ends with StorageFailure and leaves the table as
\* it was.
C29_UpdateAfterDeleteFails ==
    [][\A r \in RaceSlots :
          (/\ reqs[r].pc = "upd_write" /\ reqs'[r] # reqs[r]
           /\ Scoped(events, reqs[r].eventId, reqs[r].user) = {}) =>
              /\ Outcome(reqs'[r].resp) = "StorageFailure"
              /\ reqs'[r].muts = <<>>
              /\ events' = events]_vars

\* an UPDATE stands between its existence check and its write while its target
\* is gone
C29_UpdateOvertaken ==
    \E r \in RaceSlots :
        /\ reqs[r].pc = "upd_write"
        /\ Scoped(events, reqs[r].eventId, reqs[r].user) = {}

=============================================================================
